---- MODULE Spec2Model ----
(***************************************************************************)
(* Model of the DLNA title cache of TorrServer:                            *)
(*   - server/dlnatitles/normalize.go: EnsureTorrent, lockTorrent,         *)
(*     generateNormalizedTitle, requestNormalizedTitle, Lookup             *)
(*   - package settings (same file, second part): HasDLNATitleBucket,      *)
(*     StoreDLNATitles, GetDLNATitle, RemDLNATitles and the layered        *)
(*     dispatch removeDLNATitleBucket / hasDLNATitleBucket /               *)
(*     storeDLNATitles over DBReadCache -> XPathDBRouter -> TDB.           *)
(* Strings are sequences of one-character strings, so that TrimSpace and   *)
(* ToLower are computed and not assumed.                                   *)
(***************************************************************************)
EXTENDS Integers, Sequences, FiniteSets, TLC

\* ------------------------------------------------------------- bounds
\* number of goroutines calling into the package
NumProcs == 3
\* number of goroutines calling into the cache at the same time
NumCacheProcs == 2
\* largest value of BTsets.DLNATitleWorkers explored (0 = unset)
MaxWorkersCfg == 2
\* number of goroutines running createStreamLinkFiles at the same time
NumLinkProcs == 2
\* number of goroutines calling the flat SetDLNATitle at the same time
NumFlatProcs == 2

\* settings.DefaultDLNATitleWorkers ("default fixed" in the design text)
DefaultDLNATitleWorkers == 2

Procs == 1..NumProcs

\* ------------------------------------------------------------ strings
EmptyStr == <<>>
Str1(a) == <<a>>
Str2(a, b) == <<a, b>>

IsSpace(ch) == ch = " "

RECURSIVE TrimLeft(_)
TrimLeft(s) ==
    IF s = EmptyStr THEN EmptyStr
    ELSE IF IsSpace(Head(s)) THEN TrimLeft(Tail(s)) ELSE s

RECURSIVE TrimRight(_)
TrimRight(s) ==
    IF s = EmptyStr THEN EmptyStr
    ELSE IF IsSpace(s[Len(s)]) THEN TrimRight(SubSeq(s, 1, Len(s) - 1)) ELSE s

\* strings.TrimSpace
TrimSpace(s) == TrimRight(TrimLeft(s))

LowerChar(ch) == IF ch = "A" THEN "a" ELSE IF ch = "B" THEN "b" ELSE ch

\* strings.ToLower
ToLower(s) == [i \in 1..Len(s) |-> LowerChar(s[i])]

\* faulty variant: the hash is trimmed and its case is kept
normalizeDLNAHash_KeepCase(hash) == TrimSpace(hash)

\* settings.normalizeDLNAHash, and the same expression at the top of EnsureTorrent
normalizeDLNAHash(hash) == ToLower(TrimSpace(hash))

\* ------------------------------------------------------- input domains
\* hash strings handed to the entry points
HashInputs == { Str1("a"), Str2("A", " "), Str1("b"), Str1(" ") }
NormHashes == { normalizeDLNAHash(h) : h \in HashInputs } \ {EmptyStr}

\* the buckets the durable store can hold: those of the hashes above and one
\* of a hash that has the hash "a" as a prefix
BucketHashes == NormHashes \cup { Str2("a", "b") }

\* one torrent's hash, and a blank one
OneTorrent == { Str1("a"), Str1(" ") }

\* file paths of a torrent
Paths == { EmptyStr, Str1("x"), Str1("y"), Str2("x", " "), Str1(" ") }

\* paths handed to GetDLNATitle
ReadPaths == { EmptyStr, Str1("x"), Str1("y"), Str2("x", " ") }

\* path lists handed to EnsureTorrent
PathLists ==
    { <<>>,
      <<Str1("x")>>,
      <<Str1("x"), Str1("y")>>,
      <<Str1("x"), EmptyStr, Str1("x")>>,
      <<Str2("x", " ")>>,
      <<Str1(" ")>> }

\* ---------------------------------------------------- provider replies
\* one reply of the chat-completions endpoint, as requestNormalizedTitle sees it
Reply(kind, content) == [kind |-> kind, content |-> content]

Replies ==
    { Reply("transport", EmptyStr), Reply("status", EmptyStr),
      Reply("decode", EmptyStr), Reply("nochoices", EmptyStr) }
    \cup { Reply("ok", t) : t \in { EmptyStr, Str1(" "), Str1("T"), Str2("T", " "), Str1("U"), Str1("V") } }

\* requestNormalizedTitle: (title, err)
requestNormalizedTitle(reply) ==
    IF reply.kind # "ok"
    THEN [title |-> EmptyStr, err |-> TRUE]
    ELSE LET title == TrimSpace(reply.content)
         IN IF title = EmptyStr
            THEN [title |-> EmptyStr, err |-> TRUE]
            ELSE [title |-> title, err |-> FALSE]

GenResult(title, err, calls) == [title |-> title, err |-> err, calls |-> calls]

\* faulty variant: a third reply that matches neither is silently resolved to the first
generateNormalizedTitle_PickFirst(path, cfg, r1, r2, r3) ==
    IF ~cfg THEN GenResult(path, "config", 0)
    ELSE
    LET first == requestNormalizedTitle(r1)
        second == requestNormalizedTitle(r2)
        third == requestNormalizedTitle(r3)
    IN IF first.err THEN GenResult(path, "request", 1)
       ELSE IF second.err THEN GenResult(path, "request", 2)
       ELSE IF first.title = second.title THEN GenResult(first.title, "none", 2)
       ELSE IF third.err THEN GenResult(path, "request", 3)
       ELSE IF third.title = second.title THEN GenResult(second.title, "none", 3)
       ELSE GenResult(first.title, "none", 3)

\* faulty variant: a failed second call is retried once with the third reply
generateNormalizedTitle_Retry(path, cfg, r1, r2, r3) ==
    IF ~cfg THEN GenResult(path, "config", 0)
    ELSE
    LET first == requestNormalizedTitle(r1)
        second == requestNormalizedTitle(r2)
        third == requestNormalizedTitle(r3)
    IN IF first.err THEN GenResult(path, "request", 1)
       ELSE IF second.err
            THEN IF third.err THEN GenResult(path, "request", 3)
                 ELSE IF third.title = first.title THEN GenResult(first.title, "none", 3)
                 ELSE GenResult(path, "inconsistent", 3)
       ELSE IF first.title = second.title THEN GenResult(first.title, "none", 2)
       ELSE IF third.err THEN GenResult(path, "request", 3)
       ELSE IF third.title = first.title THEN GenResult(first.title, "none", 3)
       ELSE IF third.title = second.title THEN GenResult(second.title, "none", 3)
       ELSE GenResult(path, "inconsistent", 3)

\* generateNormalizedTitle: r1, r2, r3 are the replies the provider gives to the
\* first, second and third request; calls is how many of them were requested
generateNormalizedTitle(path, cfg, r1, r2, r3) ==
    IF ~cfg THEN GenResult(path, "config", 0)
    ELSE
    LET first == requestNormalizedTitle(r1)
        second == requestNormalizedTitle(r2)
        third == requestNormalizedTitle(r3)
    IN IF first.err THEN GenResult(path, "request", 1)
       ELSE IF second.err THEN GenResult(path, "request", 2)
       ELSE IF first.title = second.title THEN GenResult(first.title, "none", 2)
       ELSE IF third.err THEN GenResult(path, "request", 3)
       ELSE IF third.title = first.title THEN GenResult(first.title, "none", 3)
       ELSE IF third.title = second.title THEN GenResult(second.title, "none", 3)
       ELSE GenResult(path, "inconsistent", 3)

\* the replies of the provider behind EnsureTorrent: it fails, or it answers
\* with one title, with or without surrounding blanks
BatchReplies == { r \in Replies : r.content \notin { Str1("U"), Str1("V") } }

\* every outcome generateNormalizedTitle can have for a path in a batch
GenOutcomes ==
    [p \in Paths, cfg \in BOOLEAN |->
        { generateNormalizedTitle(p, cfg, r1, r2, r3) :
            r1 \in BatchReplies, r2 \in BatchReplies, r3 \in BatchReplies }]


\* ------------------------------------------------------------ maps
\* a Go map is a set of <<key, value>> pairs with at most one pair per key
Dom(m) == { e[1] : e \in m }
IsMap(m) == \A e1 \in m, e2 \in m : e1[1] = e2[1] => e1 = e2
MapGet(m, k) == IF k \in Dom(m) THEN (CHOOSE e \in m : e[1] = k)[2] ELSE EmptyStr
MapPut(m, k, v) == { e \in m : e[1] # k } \cup { <<k, v>> }

\* maps handed to StoreDLNATitles by direct callers
TitleMaps ==
    { {},
      { <<Str1("x"), Str1("T")>> },
      { <<Str1("x"), Str1("U")>>, <<Str1("y"), Str1("T")>> },
      { <<Str2("x", " "), Str1("T")>>, <<Str1("x"), Str1("U")>> },
      { <<Str2("x", " "), Str1("U")>> },
      { <<Str1("x"), EmptyStr>> },
      { <<Str1(" "), Str1("T")>> } }

\* ------------------------------------------------------------ state
VARIABLES
    tdbOpen,       \* settings.tdb # nil
    ReadOnly,      \* settings.ReadOnly
    configured,    \* OPENAI_API_KEY and OPENAI_MODEL are both set
    workersCfg,    \* settings.BTsets.DLNATitleWorkers
    listing,       \* the media paths of the torrent, as handed to EnsureTorrent
    listCache,     \* DBReadCache.listCache: set of <<hash, names>>
    dataCache,     \* DBReadCache.dataCache: set of <<hash, path, value>>
    dbBuckets,     \* TDB: hashes that have a sub-bucket under "DLNATitles"
    dbEntries,     \* TDB: the entries of each sub-bucket, a map path -> title
    ensureLocks,   \* dlnatitles.ensureLocks: hash -> mutex (0: no entry)
    locked,        \* the mutexes that are locked
    pc,            \* where each goroutine is
    hashHex,       \* its normalized hash
    uniquePaths,   \* EnsureTorrent: de-duplicated paths
    mu,            \* lockTorrent: the mutex it loaded or stored
    titles,        \* EnsureTorrent: the titles map
    next,          \* EnsureTorrent: index of the next path to launch
    inflight,      \* EnsureTorrent: paths whose worker holds a semaphore slot
    gen,           \* per call, what generateNormalizedTitle returned for each path
    argTitles,     \* storeDLNATitles: the cleaned map being stored
    argPath,       \* Get: the path being read
    tmp,           \* Get / List: the value read from the next layer
    ret,           \* pc to continue at when the cache call returns
    snap,          \* what each EnsureTorrent call saw when it was entered
    last,          \* the latest direct call into the cache, and what it found
    gIn,           \* generator harness: the inputs
    gOut,          \* generator harness: the result
    fsDirs,        \* projection root: the names of the directories in it
    fsMarker,      \* projection root: content of <dir>/.hash ("" = no marker)
    fsFiles,       \* projection root: the link files of each directory, name -> content
    fsFaulty,      \* projection root: whether os.MkdirAll and os.WriteFile can fail
    pj,            \* the createStreamLinkFiles call of each goroutine
    hist,          \* what the completed createStreamLinkFiles calls did
    nm,            \* directory naming on its own: the inputs and the name
    flatBuf,       \* flat encoding: the serialized array stored for each hash
    fl,            \* flat encoding: the SetDLNATitle call of each goroutine
    ct             \* path building on its own: the inputs and the paths touched

cfgVars == <<tdbOpen, ReadOnly, configured, workersCfg, listing>>
cacheVars == <<listCache, dataCache, dbBuckets, dbEntries>>
lockVars == <<ensureLocks, locked>>
ensureVars == <<uniquePaths, mu, titles, next, inflight, gen, snap>>
opVars == <<argTitles, argPath, tmp, ret>>
linkVars == <<fsDirs, fsMarker, fsFiles, fsFaulty, pj, hist>>
auxVars == <<nm, flatBuf, fl, ct>>
genVars == <<gIn, gOut, linkVars, auxVars>>
vars == <<cfgVars, cacheVars, lockVars, ensureVars, opVars, genVars, pc, hashHex, last>>

\* ------------------------------------------------ the layered cache
\* (*TDB).hasDLNATitleBucket
tdbHasDLNATitleBucket(h) == h \in dbBuckets

\* hasDLNATitleBucket, one case of the type switch per layer
RECURSIVE hasDLNATitleBucket(_, _)
hasDLNATitleBucket(layer, h) ==
    CASE layer = "DBReadCache" ->
            \/ \E e \in listCache : e[1] = h
            \/ \E k \in dataCache : k[1] = h
            \/ hasDLNATitleBucket("XPathDBRouter", h)
      [] layer = "XPathDBRouter" -> hasDLNATitleBucket("TDB", h)
      [] layer = "TDB" -> tdbHasDLNATitleBucket(h)

Layers == { "DBReadCache", "XPathDBRouter", "TDB" }

\* settings.HasDLNATitleBucket
HasDLNATitleBucket(hash) ==
    IF ~tdbOpen THEN FALSE
    ELSE LET h == normalizeDLNAHash(hash)
         IN IF h = EmptyStr THEN FALSE ELSE hasDLNATitleBucket("DBReadCache", h)

\* TDB.Get("DLNATitles/"+h, path): the value of the key in the sub-bucket
tdbGet(h, path) == IF h \in dbBuckets THEN MapGet(dbEntries[h], path) ELSE EmptyStr

\* DBReadCache.Get as a value: the cached blob, else the next layer's
cacheGet(h, path) ==
    IF \E k \in dataCache : k[1] = h /\ k[2] = path
    THEN (CHOOSE k \in dataCache : k[1] = h /\ k[2] = path)[3]
    ELSE tdbGet(h, path)

\* faulty variant: the read goes on when the store is not open
GetDLNATitle_NoOpenCheck(hash, path) ==
    LET h == normalizeDLNAHash(hash)
    IN IF h = EmptyStr \/ path = EmptyStr THEN EmptyStr ELSE cacheGet(h, path)

\* settings.GetDLNATitle, the value it returns in the current state
GetDLNATitle(hash, path) ==
    IF ~tdbOpen THEN EmptyStr
    ELSE LET h == normalizeDLNAHash(hash)
         IN IF h = EmptyStr \/ path = EmptyStr THEN EmptyStr ELSE cacheGet(h, path)

\* StoreDLNATitles: the cleaned maps the loop over titles can build; two keys
\* that trim to the same path overwrite each other in map iteration order
Cleaned(ts) ==
    LET cand == { <<TrimSpace(e[1]), e[2]>> : e \in { x \in ts : TrimSpace(x[1]) # EmptyStr } }
    IN { m \in SUBSET cand : IsMap(m) /\ Dom(m) = Dom(cand) }


\* -------------------------------------------------- EnsureTorrent
\* the loop that de-duplicates paths and drops empty ones
RECURSIVE Dedup(_, _)
Dedup(paths, acc) ==
    IF paths = <<>> THEN acc
    ELSE LET path == Head(paths)
         IN IF path = EmptyStr \/ \E i \in 1..Len(acc) : acc[i] = path
            THEN Dedup(Tail(paths), acc)
            ELSE Dedup(Tail(paths), Append(acc, path))

\* faulty variant: the semaphore has one slot more than the worker count
Workers_OneMore ==
    (IF workersCfg > 0 THEN workersCfg ELSE DefaultDLNATitleWorkers) + 1

\* the effective worker count
Workers ==
    LET w == IF workersCfg > 0 THEN workersCfg ELSE DefaultDLNATitleWorkers
    IN IF w <= 0 THEN DefaultDLNATitleWorkers ELSE w

InCritical(c) == pc[c] \in { "check1", "spawn", "store", "storeList", "storeData", "storeDurable", "unlock" }
                 /\ ret[c] = "unlock"

\* EnsureTorrent up to the call of lockTorrent
EnsureBegin(c, hash) ==
    /\ pc[c] = "idle"
    /\ LET h == normalizeDLNAHash(hash)
           u == Dedup(listing, <<>>)
       IN /\ hashHex' = [hashHex EXCEPT ![c] = h]
          /\ snap' = [snap EXCEPT ![c] =
                        [has |-> HasDLNATitleBucket(hash),
                         cache |-> cacheVars,
                         prior |-> { d \in Procs : pc[d] = "done" },
                         hash |-> hash]]
          /\ ret' = [ret EXCEPT ![c] = "unlock"]
          /\ IF h = EmptyStr \/ Len(listing) = 0 \/ Len(u) = 0
             THEN /\ pc' = [pc EXCEPT ![c] = "done"]
                  /\ UNCHANGED uniquePaths
             ELSE /\ pc' = [pc EXCEPT ![c] = "lockLoad"]
                  /\ uniquePaths' = [uniquePaths EXCEPT ![c] = u]
    /\ UNCHANGED <<cfgVars, cacheVars, lockVars, mu, titles, next, inflight, gen,
                   argTitles, argPath, tmp, genVars>>

\* lockTorrent: ensureLocks.LoadOrStore(hashHex, &sync.Mutex{}); the mutex a
\* call allocates is named after the call
LockLoad(c) ==
    /\ pc[c] = "lockLoad"
    /\ IF ensureLocks[hashHex[c]] = 0
       THEN /\ ensureLocks' = [ensureLocks EXCEPT ![hashHex[c]] = c]
            /\ mu' = [mu EXCEPT ![c] = c]
       ELSE /\ mu' = [mu EXCEPT ![c] = ensureLocks[hashHex[c]]]
            /\ UNCHANGED ensureLocks
    /\ pc' = [pc EXCEPT ![c] = "lockAcquire"]
    /\ UNCHANGED <<cfgVars, cacheVars, locked, uniquePaths, titles, next, inflight, gen, snap,
                   opVars, genVars, hashHex>>

\* lockTorrent: mu.Lock()
LockAcquire(c) ==
    /\ pc[c] = "lockAcquire"
    /\ mu[c] \notin locked
    /\ locked' = locked \cup { mu[c] }
    /\ pc' = [pc EXCEPT ![c] = "check1"]
    /\ UNCHANGED <<cfgVars, cacheVars, ensureLocks, ensureVars, opVars, genVars, hashHex>>

\* faulty variant: the batch is set up without looking for an existing bucket
EnsureCheck_NoFastPath(c) ==
    /\ pc[c] = "check1"
    /\ pc' = [pc EXCEPT ![c] = "spawn"]
    /\ titles' = [titles EXCEPT ![c] = {}]
    /\ next' = [next EXCEPT ![c] = 1]
    /\ UNCHANGED <<cfgVars, cacheVars, lockVars, uniquePaths, mu, inflight, gen, snap,
                   opVars, genVars, hashHex>>

\* the first HasDLNATitleBucket check and the set-up of the batch
EnsureCheck(c) ==
    /\ pc[c] = "check1"
    /\ IF HasDLNATitleBucket(hashHex[c])
       THEN pc' = [pc EXCEPT ![c] = "unlock"]
       ELSE pc' = [pc EXCEPT ![c] = "spawn"]
    /\ titles' = [titles EXCEPT ![c] = {}]
    /\ next' = [next EXCEPT ![c] = 1]
    /\ UNCHANGED <<cfgVars, cacheVars, lockVars, uniquePaths, mu, inflight, gen, snap,
                   opVars, genVars, hashHex>>

\* one iteration of the launch loop: sem <- struct{}{}; wg.Add(1); go func()
EnsureSpawn(c) ==
    /\ pc[c] = "spawn"
    /\ next[c] <= Len(uniquePaths[c])
    /\ Cardinality(inflight[c]) < Workers
    /\ inflight' = [inflight EXCEPT ![c] = @ \cup { uniquePaths[c][next[c]] }]
    /\ next' = [next EXCEPT ![c] = @ + 1]
    /\ UNCHANGED <<cfgVars, cacheVars, lockVars, uniquePaths, mu, titles, gen, snap,
                   opVars, genVars, pc, hashHex>>

\* what a call remembers of one generation: the returned title, whether it
\* succeeded, whether the provider was called
GenSeen(out) == [title |-> out.title, ok |-> out.err = "none", called |-> out.calls > 0]

\* the title a worker stores for what generateNormalizedTitle returned
WorkerTitle(path, out) ==
    LET title == TrimSpace(out.title)
    IN IF title = EmptyStr THEN path ELSE title

\* the body of one worker goroutine
EnsureWorker(c, path) ==
    /\ pc[c] = "spawn"
    /\ path \in inflight[c]
    /\ \E out \in GenOutcomes[path, configured] :
          /\ titles' = [titles EXCEPT ![c] = MapPut(@, path, WorkerTitle(path, out))]
          /\ gen' = [gen EXCEPT ![c] = @ \cup { <<path, GenSeen(out)>> }]
    /\ inflight' = [inflight EXCEPT ![c] = @ \ { path }]
    /\ UNCHANGED <<cfgVars, cacheVars, lockVars, uniquePaths, mu, next, snap,
                   opVars, genVars, pc, hashHex>>

\* faulty variant: the checks after the launch loop do not wait for the workers
EnsureWait_NoJoin(c) ==
    /\ pc[c] = "spawn"
    /\ next[c] > Len(uniquePaths[c])
    /\ IF titles[c] = {} \/ HasDLNATitleBucket(hashHex[c])
       THEN pc' = [pc EXCEPT ![c] = "unlock"]
       ELSE pc' = [pc EXCEPT ![c] = "store"]
    /\ UNCHANGED <<cfgVars, cacheVars, lockVars, ensureVars, opVars, genVars, hashHex>>

\* wg.Wait() and the checks that follow it
EnsureWait(c) ==
    /\ pc[c] = "spawn"
    /\ next[c] > Len(uniquePaths[c])
    /\ inflight[c] = {}
    /\ IF titles[c] = {} \/ HasDLNATitleBucket(hashHex[c])
       THEN pc' = [pc EXCEPT ![c] = "unlock"]
       ELSE pc' = [pc EXCEPT ![c] = "store"]
    /\ UNCHANGED <<cfgVars, cacheVars, lockVars, ensureVars, opVars, genVars, hashHex>>


\* -------------------------------------------- StoreDLNATitles, by steps
\* StoreDLNATitles up to the call of storeDLNATitles: the guards and the
\* cleaning loop; back is where the caller continues
StoreCall(c, hash, ts, back) ==
    LET h == normalizeDLNAHash(hash)
    IN IF ~tdbOpen \/ ReadOnly \/ h = EmptyStr \/ ts = {}
       THEN /\ pc' = [pc EXCEPT ![c] = back]
            /\ UNCHANGED <<argTitles, hashHex, ret>>
       ELSE \E cleaned \in Cleaned(ts) :
               IF cleaned = {}
               THEN /\ pc' = [pc EXCEPT ![c] = back]
                    /\ UNCHANGED <<argTitles, hashHex, ret>>
               ELSE /\ pc' = [pc EXCEPT ![c] = "storeList"]
                    /\ argTitles' = [argTitles EXCEPT ![c] = cleaned]
                    /\ hashHex' = [hashHex EXCEPT ![c] = h]
                    /\ ret' = [ret EXCEPT ![c] = back]

\* EnsureTorrent: settings.StoreDLNATitles(hashHex, titles)
EnsureStore(c) ==
    /\ pc[c] = "store"
    /\ StoreCall(c, hashHex[c], titles[c], "unlock")
    /\ UNCHANGED <<cfgVars, cacheVars, lockVars, ensureVars, argPath, tmp, genVars>>

\* a direct call of settings.StoreDLNATitles
StoreBegin(c, hash, ts) ==
    /\ pc[c] = "idle"
    /\ StoreCall(c, hash, ts, "idle")
    /\ UNCHANGED <<cfgVars, cacheVars, lockVars, ensureVars, argPath, tmp, genVars>>

\* the last step of a cache call: control goes back to the caller, and the
\* locals of a direct call go out of scope
Return(c) ==
    /\ pc' = [pc EXCEPT ![c] = ret[c]]
    /\ hashHex' = [hashHex EXCEPT ![c] = IF ret[c] = "idle" THEN EmptyStr ELSE @]
    /\ argTitles' = [argTitles EXCEPT ![c] = {}]
    /\ argPath' = [argPath EXCEPT ![c] = EmptyStr]
    /\ tmp' = [tmp EXCEPT ![c] = EmptyStr]


\* the purge of a bucket's listing from DBReadCache.listCache
PurgeList(h) == { e \in listCache : e[1] # h }

\* faulty variant: the purge takes every key whose bucket name begins with the prefix
PurgeData_Prefix(h) ==
    { k \in dataCache : ~(Len(h) <= Len(k[1]) /\ SubSeq(k[1], 1, Len(h)) = h) }

\* faulty variant: the purge of the data cache leaves the bucket's keys in place
PurgeData_Keep(h) == dataCache

\* the purge of a bucket's keys from DBReadCache.dataCache
PurgeData(h) == { k \in dataCache : k[1] # h }


\* faulty variant: an existing bucket is overwritten by the new titles
tdbCreateDLNATitleBucket_Overwrite(h, ts) ==
    IF ts = {}
    THEN UNCHANGED <<dbBuckets, dbEntries>>
    ELSE /\ dbBuckets' = dbBuckets \cup { h }
         /\ dbEntries' = [dbEntries EXCEPT ![h] = ts]

\* (*TDB).createDLNATitleBucket: one bolt transaction
tdbCreateDLNATitleBucket(h, ts) ==
    IF ts = {} \/ h \in dbBuckets
    THEN UNCHANGED <<dbBuckets, dbEntries>>
    ELSE /\ dbBuckets' = dbBuckets \cup { h }
         /\ dbEntries' = [dbEntries EXCEPT ![h] = ts]

\* faulty variant: the transaction empties the sub-bucket and leaves it in place
tdbDeleteDLNATitleBucket_Empty(h) ==
    /\ dbEntries' = [dbEntries EXCEPT ![h] = {}]
    /\ UNCHANGED dbBuckets

\* (*TDB).deleteDLNATitleBucket: one bolt transaction
tdbDeleteDLNATitleBucket(h) ==
    /\ dbBuckets' = dbBuckets \ { h }
    /\ dbEntries' = [dbEntries EXCEPT ![h] = {}]

\* storeDLNATitles, case *DBReadCache: the list cache section
StoreList(c) ==
    /\ pc[c] = "storeList"
    /\ listCache' = PurgeList(hashHex[c])
    /\ pc' = [pc EXCEPT ![c] = "storeData"]
    /\ UNCHANGED <<cfgVars, dataCache, dbBuckets, dbEntries, lockVars, ensureVars, opVars,
                   genVars, hashHex>>

\* storeDLNATitles, case *DBReadCache: the data cache section
StoreData(c) ==
    /\ pc[c] = "storeData"
    /\ dataCache' = PurgeData(hashHex[c])
    /\ pc' = [pc EXCEPT ![c] = "storeDurable"]
    /\ UNCHANGED <<cfgVars, listCache, dbBuckets, dbEntries, lockVars, ensureVars, opVars,
                   genVars, hashHex>>

\* storeDLNATitles, cases *XPathDBRouter and *TDB
StoreDurable(c) ==
    /\ pc[c] = "storeDurable"
    /\ tdbCreateDLNATitleBucket(hashHex[c], argTitles[c])
    /\ Return(c)
    /\ UNCHANGED <<cfgVars, listCache, dataCache, lockVars, ensureVars, ret, genVars>>


\* the unlock function: mu.Unlock()
LockRelease(c) == locked' = locked \ { mu[c] }

\* the deferred unlock, first half
EnsureUnlock(c) ==
    /\ pc[c] = "unlock"
    /\ LockRelease(c)
    /\ pc' = [pc EXCEPT ![c] = "delete"]
    /\ UNCHANGED <<cfgVars, cacheVars, ensureLocks, ensureVars, opVars, genVars, hashHex>>

\* faulty variant: the unlock function leaves the entry in ensureLocks
EnsureDelete_Keep(c) ==
    /\ pc[c] = "delete"
    /\ pc' = [pc EXCEPT ![c] = "done"]
    /\ mu' = [mu EXCEPT ![c] = 0]
    /\ titles' = [titles EXCEPT ![c] = {}]
    /\ uniquePaths' = [uniquePaths EXCEPT ![c] = <<>>]
    /\ next' = [next EXCEPT ![c] = 1]
    /\ UNCHANGED <<cfgVars, cacheVars, lockVars, inflight, gen, snap, opVars, genVars, hashHex>>

\* the deferred unlock, second half: ensureLocks.Delete(hashHex); the call
\* returns and its locals go out of scope
EnsureDelete(c) ==
    /\ pc[c] = "delete"
    /\ ensureLocks' = [ensureLocks EXCEPT ![hashHex[c]] = 0]
    /\ pc' = [pc EXCEPT ![c] = "done"]
    /\ mu' = [mu EXCEPT ![c] = 0]
    /\ titles' = [titles EXCEPT ![c] = {}]
    /\ uniquePaths' = [uniquePaths EXCEPT ![c] = <<>>]
    /\ next' = [next EXCEPT ![c] = 1]
    /\ UNCHANGED <<cfgVars, cacheVars, locked, inflight, gen, snap, opVars, genVars, hashHex>>

\* -------------------------------------------- RemDLNATitles, by steps
\* settings.RemDLNATitles up to the call of removeDLNATitleBucket
RemBegin(c, hash) ==
    /\ pc[c] = "idle"
    /\ LET h == normalizeDLNAHash(hash)
       IN IF ~tdbOpen \/ h = EmptyStr
          THEN UNCHANGED <<pc, hashHex, ret>>
          ELSE /\ pc' = [pc EXCEPT ![c] = "remList"]
               /\ hashHex' = [hashHex EXCEPT ![c] = h]
               /\ ret' = [ret EXCEPT ![c] = "idle"]
    /\ UNCHANGED <<cfgVars, cacheVars, lockVars, ensureVars, argTitles, argPath, tmp, genVars>>

\* removeDLNATitleBucket, case *DBReadCache: the list cache section
RemList(c) ==
    /\ pc[c] = "remList"
    /\ listCache' = PurgeList(hashHex[c])
    /\ pc' = [pc EXCEPT ![c] = "remData"]
    /\ UNCHANGED <<cfgVars, dataCache, dbBuckets, dbEntries, lockVars, ensureVars, opVars,
                   genVars, hashHex>>

\* removeDLNATitleBucket, case *DBReadCache: the data cache section
RemData(c) ==
    /\ pc[c] = "remData"
    /\ dataCache' = PurgeData(hashHex[c])
    /\ pc' = [pc EXCEPT ![c] = "remDurable"]
    /\ UNCHANGED <<cfgVars, listCache, dbBuckets, dbEntries, lockVars, ensureVars, opVars,
                   genVars, hashHex>>

\* removeDLNATitleBucket, cases *XPathDBRouter and *TDB
RemDurable(c) ==
    /\ pc[c] = "remDurable"
    /\ tdbDeleteDLNATitleBucket(hashHex[c])
    /\ Return(c)
    /\ UNCHANGED <<cfgVars, listCache, dataCache, lockVars, ensureVars, ret, genVars>>

\* ------------------------------------------------- readers, by steps
\* settings.GetDLNATitle up to the call of tdb.Get
GetBegin(c, hash, path) ==
    /\ pc[c] = "idle"
    /\ LET h == normalizeDLNAHash(hash)
       IN IF ~tdbOpen \/ h = EmptyStr \/ path = EmptyStr
          THEN UNCHANGED <<pc, hashHex, argPath, ret>>
          ELSE /\ pc' = [pc EXCEPT ![c] = "getCache"]
               /\ hashHex' = [hashHex EXCEPT ![c] = h]
               /\ argPath' = [argPath EXCEPT ![c] = path]
               /\ ret' = [ret EXCEPT ![c] = "idle"]
    /\ UNCHANGED <<cfgVars, cacheVars, lockVars, ensureVars, argTitles, tmp, genVars>>

\* DBReadCache.Get: the look-up in dataCache under the read lock
GetCache(c) ==
    /\ pc[c] = "getCache"
    /\ IF \E k \in dataCache : k[1] = hashHex[c] /\ k[2] = argPath[c]
       THEN Return(c)
       ELSE /\ pc' = [pc EXCEPT ![c] = "getRead"]
            /\ UNCHANGED <<hashHex, argTitles, argPath, tmp>>
    /\ UNCHANGED <<cfgVars, cacheVars, lockVars, ensureVars, ret, genVars>>

\* DBReadCache.Get: the read of the next layer, outside the locks of the cache
GetRead(c) ==
    /\ pc[c] = "getRead"
    /\ tmp' = [tmp EXCEPT ![c] = tdbGet(hashHex[c], argPath[c])]
    /\ pc' = [pc EXCEPT ![c] = "getFill"]
    /\ UNCHANGED <<cfgVars, cacheVars, lockVars, ensureVars, argTitles, argPath, ret,
                   genVars, hashHex>>

\* DBReadCache.Get: the blob that was read is kept in dataCache
GetFill(c) ==
    /\ pc[c] = "getFill"
    /\ IF tmp[c] # EmptyStr
       THEN dataCache' = { k \in dataCache : ~(k[1] = hashHex[c] /\ k[2] = argPath[c]) }
                         \cup { <<hashHex[c], argPath[c], tmp[c]>> }
       ELSE UNCHANGED dataCache
    /\ Return(c)
    /\ UNCHANGED <<cfgVars, listCache, dbBuckets, dbEntries, lockVars, ensureVars, ret, genVars>>

\* tdb.List("DLNATitles/"+hash) up to the look-up in listCache
ListBegin(c, hash) ==
    /\ pc[c] = "idle"
    /\ LET h == normalizeDLNAHash(hash)
       IN IF ~tdbOpen \/ h = EmptyStr \/ \E e \in listCache : e[1] = h
          THEN UNCHANGED <<pc, hashHex, ret>>
          ELSE /\ pc' = [pc EXCEPT ![c] = "listRead"]
               /\ hashHex' = [hashHex EXCEPT ![c] = h]
               /\ ret' = [ret EXCEPT ![c] = "idle"]
    /\ UNCHANGED <<cfgVars, cacheVars, lockVars, ensureVars, argTitles, argPath, tmp, genVars>>

\* DBReadCache.List: the read of the next layer; a listing is a set of names
ListRead(c) ==
    /\ pc[c] = "listRead"
    /\ tmp' = [tmp EXCEPT ![c] = IF hashHex[c] \in dbBuckets THEN Dom(dbEntries[hashHex[c]]) ELSE {}]
    /\ pc' = [pc EXCEPT ![c] = "listFill"]
    /\ UNCHANGED <<cfgVars, cacheVars, lockVars, ensureVars, argTitles, argPath, ret,
                   genVars, hashHex>>

\* DBReadCache.List: the listing that was read is kept in listCache
ListFill(c) ==
    /\ pc[c] = "listFill"
    /\ IF tmp[c] # {}
       THEN listCache' = PurgeList(hashHex[c]) \cup { <<hashHex[c], tmp[c]>> }
       ELSE UNCHANGED listCache
    /\ Return(c)
    /\ UNCHANGED <<cfgVars, dataCache, dbBuckets, dbEntries, lockVars, ensureVars, ret, genVars>>

\* a call of settings.HasDLNATitleBucket: a read that leaves no trace
HasCall(c, hash) ==
    /\ pc[c] = "idle"
    /\ UNCHANGED <<cfgVars, cacheVars, lockVars, ensureVars, opVars, genVars, pc, hashHex>>

\* settings.SetDLNATitle: the guards, then tdb.Set, a write of one key that
\* creates the sub-bucket when it is missing; the memory layer drops the
\* bucket's listing and keeps the value written
SetCall(c, hash, path, title) ==
    /\ pc[c] = "idle"
    /\ LET h == normalizeDLNAHash(hash)
       IN IF ~tdbOpen \/ ReadOnly \/ h = EmptyStr \/ path = EmptyStr
          THEN UNCHANGED cacheVars
          ELSE /\ listCache' = PurgeList(h)
               /\ dataCache' = { k \in dataCache : ~(k[1] = h /\ k[2] = path) }
                                  \cup { <<h, path, title>> }
               /\ dbBuckets' = dbBuckets \cup { h }
               /\ dbEntries' = [dbEntries EXCEPT ![h] = MapPut(@, path, title)]
    /\ UNCHANGED <<cfgVars, lockVars, ensureVars, opVars, genVars, pc, hashHex>>

\* the titles handed to SetDLNATitle
SetTitles == { EmptyStr, Str1("T") }

\* the record of a direct call: its arguments and what the layers held for
\* its bucket when it was entered
Called(op, hash, ts) ==
    LET h == normalizeDLNAHash(hash)
    IN [op |-> op, hash |-> hash, ts |-> ts,
        had |-> h \in dbBuckets,
        list |-> \E e \in listCache : e[1] = h,
        data |-> \E k \in dataCache : k[1] = h]

NoCall == [op |-> "none", hash |-> EmptyStr, ts |-> {}, had |-> FALSE, list |-> FALSE, data |-> FALSE]

\* ----------------------------------- the stream-link projector
\* torr/dlnacache.go: the torrents handed to createStreamLinkFiles
LinkHashes == { Str1("a"), Str1("b") }

\* t.Status().FileStats of each torrent: path and id, in listing order
FileStats(h) ==
    IF h = Str1("a")
    THEN << [Path |-> Str1("x"), Id |-> 1],
            [Path |-> Str1("y"), Id |-> 2],
            [Path |-> <<"d", "/", "x">>, Id |-> 3] >>
    ELSE << [Path |-> Str1("x"), Id |-> 1] >>

\* the paths ensureDLNATitles classified as media
MediaPaths(h) == [i \in 1..Len(FileStats(h)) |-> FileStats(h)[i].Path]

\* t.Title and t.Info().Name as the calls see them
LinkTitles == { Str1("M"), Str2(" ", ":") }
LinkInfos == { Str1("I"), EmptyStr }

\* the length at which sanitizeFileName stops copying
NameCap == 200

IsControl(ch) == ch = "\t"
IsReserved(ch) == ch \in { "<", ">", ":", "\"", "/", "\\", "|", "?", "*" }

\* the number of bytes of a rune in UTF-8; "U+00E9" stands for one two-byte rune
Width(ch) == IF ch = "U+00E9" THEN 2 ELSE 1

\* strings.Builder.Len: the number of bytes written
ByteLen(b) == Len(b) + Cardinality({ i \in DOMAIN b : Width(b[i]) = 2 })

\* sanitizeFileName: the copying loop over the runes of the trimmed name; the
\* control runes are skipped, the reserved ones become "_", and the loop
\* ends after the first rune that brings the builder to the cap
SanitizeLoop(s) ==
    LET kept == SelectSeq(s, LAMBDA ch : ~IsControl(ch))
        b == [i \in 1..Len(kept) |-> IF IsReserved(kept[i]) THEN "_" ELSE kept[i]]
        full == { n \in 1..Len(b) : ByteLen(SubSeq(b, 1, n)) >= NameCap }
    IN IF full = {} THEN b
       ELSE SubSeq(b, 1, CHOOSE n \in full : \A m \in full : n <= m)

\* strings.Trim(s, " ._")
TrimCutset(s) ==
    LET keep == { i \in 1..Len(s) : s[i] \notin { " ", ".", "_" } }
    IN IF keep = {} THEN EmptyStr
       ELSE SubSeq(s, CHOOSE i \in keep : \A j \in keep : i <= j,
                      CHOOSE i \in keep : \A j \in keep : i >= j)

\* faulty variant: the reserved characters are copied as they are
sanitizeFileName_KeepReserved(name) ==
    LET n == TrimSpace(name)
    IN IF n = EmptyStr THEN EmptyStr
       ELSE TrimCutset(SelectSeq(n, LAMBDA ch : ~IsControl(ch)))

sanitizeFileName(name) ==
    LET n == TrimSpace(name)
    IN IF n = EmptyStr THEN EmptyStr ELSE TrimCutset(SanitizeLoop(n))

\* faulty variant: the name is the sanitized title, whatever it is
DirName_TitleOnly(title, info, h) == sanitizeFileName(title)

\* createStreamLinkFiles: the choice of the directory name
DirName(title, info, h) ==
    LET d1 == sanitizeFileName(title)
        d2 == IF d1 = EmptyStr THEN sanitizeFileName(info) ELSE d1
    IN IF d2 = EmptyStr THEN h ELSE d2

\* every directory name the calls can choose
DirNames == { DirName(t, n, h) : t \in LinkTitles, n \in LinkInfos, h \in LinkHashes }

\* filepath.Base for a path that does not end with a separator
RECURSIVE Base(_)
Base(path) ==
    IF path = EmptyStr THEN Str1(".")
    ELSE IF \E i \in 1..Len(path) : path[i] = "/"
         THEN Base(Tail(path))
         ELSE path

\* url.PathEscape on the characters of the model
RECURSIVE PathEscape(_)
PathEscape(s) ==
    IF s = EmptyStr THEN EmptyStr
    ELSE (IF Head(s) = " " THEN <<"%", "2", "0">>
          ELSE IF Head(s) = "/" THEN <<"%", "2", "F">>
          ELSE <<Head(s)>>) \o PathEscape(Tail(s))

\* streamBaseURL: "http://" + host:port; defaultStreamHost always has an answer
BaseURL == <<"http://", "host", ":", "8090">>

\* faulty variant: the index is the position among the files named alike
buildStreamLink_FirstIndex(baseURL, h, path, id) ==
    IF baseURL = EmptyStr \/ h = EmptyStr \/ path = EmptyStr
    THEN [url |-> EmptyStr, name |-> EmptyStr, link |-> EmptyStr, index |-> 0]
    ELSE [url |-> baseURL, name |-> PathEscape(Base(path)), link |-> h, index |-> 1]

\* buildStreamLink: the values that fill "%s/stream/%s?link=%s&index=%d&play"
buildStreamLink(baseURL, h, path, id) ==
    IF baseURL = EmptyStr \/ h = EmptyStr \/ path = EmptyStr
    THEN [url |-> EmptyStr, name |-> EmptyStr, link |-> EmptyStr, index |-> 0]
    ELSE [url |-> baseURL, name |-> PathEscape(Base(path)), link |-> h, index |-> id]

\* dlnatitles.Lookup: the cached title, else the path
Lookup(h, path) ==
    LET cached == GetDLNATitle(h, path)
    IN IF cached # EmptyStr THEN cached ELSE path

\* fmt.Sprintf("%d", n) for the counts of the model
Itoa(n) == << <<"0", "1", "2", "3", "4", "5", "6", "7", "8", "9">>[n + 1] >>

\* fmt.Sprintf("file-%d", id)
FileDash(id) == <<"f", "i", "l", "e", "-">> \o Itoa(id)

\* createStreamLinkFiles: the base name of the link file of a media file
BaseName(h, file) ==
    LET t == TrimSpace(Lookup(h, file.Path))
        title == IF t = EmptyStr THEN Base(file.Path) ELSE t
        b == sanitizeFileName(title)
    IN IF b = EmptyStr THEN FileDash(file.Id) ELSE b

\* faulty variant: the suffix is the number of earlier files of that name
LinkName_Count(baseName, count) ==
    IF count > 0 THEN baseName \o <<" ", "(">> \o Itoa(count) \o <<")">> ELSE baseName

\* createStreamLinkFiles: name, or fmt.Sprintf("%s (%d)", baseName, count+1)
LinkName(baseName, count) ==
    IF count > 0 THEN baseName \o <<" ", "(">> \o Itoa(count + 1) \o <<")">> ELSE baseName

\* nameCounts[baseName]: the zero value for a missing key
Count(counts, baseName) ==
    IF \E e \in counts : e[1] = baseName
    THEN (CHOOSE e \in counts : e[1] = baseName)[2]
    ELSE 0

LinkProcs == 1..NumLinkProcs

ProjIdle ==
    [pc |-> "idle", hash |-> EmptyStr, title |-> EmptyStr, info |-> EmptyStr,
     dir |-> EmptyStr, i |-> 1, counts |-> {}, written |-> <<>>, marker |-> "none",
     before |-> <<{}, <<>>, <<>>>>, same |-> FALSE]

NoHist ==
    [prev |-> <<>>, ran |-> {}, dirOf |-> [h \in LinkHashes |-> EmptyStr],
     dirs |-> [h \in LinkHashes |-> {}]]

\* the outcomes of one os.MkdirAll or os.WriteFile call
Faults == IF fsFaulty THEN BOOLEAN ELSE { TRUE }

\* createStreamLinkFiles up to removeStreamLinkDir: the guards and
\* os.MkdirAll(baseDir); root says whether streamLinksRoot() is non-empty
ProjBegin(c, hash, title, info, root) ==
    /\ pj[c].pc = "idle"
    /\ \E ok \in Faults :
         LET h == ToLower(TrimSpace(hash))
         IN IF Len(MediaPaths(h)) = 0 \/ ~root \/ h = EmptyStr \/ ~ok
            THEN UNCHANGED <<pj, hist>>
            ELSE /\ pj' = [pj EXCEPT ![c] =
                             [pc |-> "remove", hash |-> h, title |-> title, info |-> info,
                              dir |-> EmptyStr, i |-> 1, counts |-> {}, written |-> <<>>,
                              marker |-> "none",
                              before |-> <<fsDirs, fsMarker, fsFiles>>,
                              same |-> hist.prev = <<h, title, info>>]]
                 /\ hist' = [hist EXCEPT !.ran = @ \cup { h }, !.prev = <<>>]
    /\ UNCHANGED <<cfgVars, cacheVars, lockVars, ensureVars, opVars, gIn, gOut, auxVars,
                   fsDirs, fsMarker, fsFiles, fsFaulty, pc, hashHex, last>>

\* faulty variant: the directory is found by the name the title gives now
Stale_ByName(h) ==
    fsDirs \cap { DirName(pj[c].title, pj[c].info, h) : c \in { d \in LinkProcs : pj[d].hash = h } }

\* the directories removeStreamLinkDir removes: those whose marker is the hash
Stale(h) ==
    { d \in fsDirs : fsMarker[d] # EmptyStr
                     /\ ToLower(TrimSpace(fsMarker[d])) = ToLower(TrimSpace(h)) }

\* removeStreamLinkDir; when os.ReadDir or os.RemoveAll fails nothing is removed
ProjRemove(c) ==
    /\ pj[c].pc = "remove"
    /\ \E ok \in Faults :
         LET gone == IF ok THEN Stale(pj[c].hash) ELSE {}
         IN /\ fsDirs' = fsDirs \ gone
            /\ fsMarker' = [d \in DirNames |-> IF d \in gone THEN EmptyStr ELSE fsMarker[d]]
            /\ fsFiles' = [d \in DirNames |-> IF d \in gone THEN {} ELSE fsFiles[d]]
    /\ pj' = [pj EXCEPT ![c].pc = "mkdir"]
    /\ UNCHANGED <<cfgVars, cacheVars, lockVars, ensureVars, opVars, gIn, gOut, auxVars, fsFaulty,
                   hist, pc, hashHex, last>>

\* the directory name, os.MkdirAll(torrentDir) and the base URL check
ProjMkdir(c) ==
    /\ pj[c].pc = "mkdir"
    /\ \E ok \in Faults :
         LET dirName == DirName(pj[c].title, pj[c].info, pj[c].hash)
         IN IF ~ok
            THEN /\ pj' = [pj EXCEPT ![c].pc = "idle", ![c].dir = dirName]
                 /\ UNCHANGED <<fsDirs, fsMarker, fsFiles>>
            ELSE IF BaseURL = EmptyStr
            THEN /\ fsDirs' = fsDirs \ { dirName }
                 /\ fsMarker' = [fsMarker EXCEPT ![dirName] = EmptyStr]
                 /\ fsFiles' = [fsFiles EXCEPT ![dirName] = {}]
                 /\ pj' = [pj EXCEPT ![c].pc = "idle", ![c].dir = dirName]
            ELSE /\ fsDirs' = fsDirs \cup { dirName }
                 /\ pj' = [pj EXCEPT ![c].pc = "files", ![c].dir = dirName]
                 /\ UNCHANGED <<fsMarker, fsFiles>>
    /\ UNCHANGED <<cfgVars, cacheVars, lockVars, ensureVars, opVars, gIn, gOut, auxVars, fsFaulty,
                   hist, pc, hashHex, last>>

\* faulty variant: the loop over the files is left at once
LoopEnd_Empty(h) == 0

\* the last index of the loop over status.FileStats; the marker comes after it
LoopEnd(h) == Len(FileStats(h))

\* faulty variant: a failed write ends the call
AfterWrite_Abort(wrote) == IF wrote THEN "files" ELSE "idle"

\* where the loop goes after os.WriteFile: an error is logged, nothing more
AfterWrite(wrote) == "files"

\* one iteration of the loop over status.FileStats; a write into a directory
\* that is not there fails
ProjFile(c) ==
    /\ pj[c].pc = "files"
    /\ pj[c].i <= LoopEnd(pj[c].hash)
    /\ LET h == pj[c].hash
           file == FileStats(h)[pj[c].i]
           allowed == { MediaPaths(h)[k] : k \in 1..Len(MediaPaths(h)) } \ { EmptyStr }
       IN IF file.Path = EmptyStr \/ file.Path \notin allowed
          THEN /\ pj' = [pj EXCEPT ![c].i = @ + 1]
               /\ UNCHANGED fsFiles
          ELSE \E ok \in Faults :
               LET baseName == BaseName(h, file)
                   count == Count(pj[c].counts, baseName)
                   name == LinkName(baseName, count)
                   link == buildStreamLink(BaseURL, h, file.Path, file.Id)
                   wrote == ok /\ pj[c].dir \in fsDirs
               IN /\ fsFiles' = IF wrote
                                THEN [fsFiles EXCEPT ![pj[c].dir] =
                                         MapPut(@, name \o <<".strmlnk">>, link)]
                                ELSE fsFiles
                  /\ pj' = [pj EXCEPT
                              ![c].pc = AfterWrite(wrote),
                              ![c].i = @ + 1,
                              ![c].counts = MapPut(@, baseName, count + 1),
                              ![c].written = Append(@, [base |-> baseName, name |-> name,
                                                        id |-> file.Id, ok |-> wrote])]
    /\ UNCHANGED <<cfgVars, cacheVars, lockVars, ensureVars, opVars, gIn, gOut, auxVars,
                   fsDirs, fsMarker, fsFaulty, hist, pc, hashHex, last>>

\* the write of the .hash marker, after the loop
ProjMarker(c) ==
    /\ pj[c].pc = "files"
    /\ pj[c].i > LoopEnd(pj[c].hash)
    /\ \E ok \in Faults :
         LET wrote == ok /\ pj[c].dir \in fsDirs
         IN /\ fsMarker' = IF wrote THEN [fsMarker EXCEPT ![pj[c].dir] = pj[c].hash]
                           ELSE fsMarker
            /\ pj' = [pj EXCEPT ![c].pc = "idle",
                                ![c].marker = IF wrote THEN "written" ELSE "failed"]
            /\ hist' = IF wrote
                       THEN [hist EXCEPT !.prev = <<pj[c].hash, pj[c].title, pj[c].info>>,
                                         !.dirOf[pj[c].hash] = pj[c].dir,
                                         !.dirs[pj[c].hash] = @ \cup { pj[c].dir }]
                       ELSE hist
    /\ UNCHANGED <<cfgVars, cacheVars, lockVars, ensureVars, opVars, gIn, gOut, auxVars,
                   fsDirs, fsFiles, fsFaulty, pc, hashHex, last>>

\* ------------------------------------------- directory naming on its own
NameIdle == [title |-> EmptyStr, info |-> EmptyStr, hash |-> EmptyStr, out |-> <<"pending">>]

\* a string of n equal characters
Rep(ch, n) == [i \in 1..n |-> ch]

\* torrent titles: plain, blank, with reserved and control characters, made of
\* dots, and longer than the cap
NameTitles ==
    { EmptyStr, Str1("M"), Str2(" ", ":"), <<"a", "\t", "b">>, <<"<", "x", ">">>,
      Str2(".", "."), <<"M", "/", ".", ".", "/", "N">>,
      Rep("M", NameCap) \o <<"N">>,
      Rep("M", NameCap - 1) \o <<".", "N">>,
      Rep("M", NameCap - 1) \o <<"U+00E9", "N">>,
      Rep(".", NameCap) \o <<"M">> }

NameInfos ==
    { EmptyStr, Str1("I"), Str1("?"), <<" ", "I", "\\", "J">>, Rep("I", NameCap + 1) }

\* the choice of the directory name for one torrent
NameStep(title, info, hash) ==
    /\ nm' = [title |-> title, info |-> info, hash |-> hash,
              out |-> DirName(title, info, hash)]
    /\ UNCHANGED <<cfgVars, cacheVars, lockVars, ensureVars, opVars, gIn, gOut, linkVars,
                   flatBuf, fl, ct, pc, hashHex, last>>

\* ------------------------------------------- the flat encoding
\* settings/dlnacache.go: one serialized array of {path, title} records per
\* hash.  flatBuf[h] is the byte string stored under ("DLNATitles", h); the
\* empty string stands for a missing key.
FlatProcs == 1..NumFlatProcs

FlatHashes == { Str1("a") }

\* the forms in which the callers pass the hash
FlatHashForms == { Str1("a"), Str2("A", " ") }

FlatPaths == { Str1("x"), Str1("y"), Str1("z") }

FlatTitles == { Str1("T"), Str2("\"", "U") }

FlatIdle == [pc |-> "idle", hash |-> EmptyStr, path |-> EmptyStr, title |-> EmptyStr,
             entries |-> <<>>, got |-> <<"none">>]

\* json.Marshal of a string: quotes around it, quote and backslash escaped
RECURSIVE EscapeStr(_)
EscapeStr(s) ==
    IF s = EmptyStr THEN EmptyStr
    ELSE (IF Head(s) \in { "\"", "\\" } THEN <<"\\", Head(s)>> ELSE <<Head(s)>>)
         \o EscapeStr(Tail(s))

QuoteStr(s) == <<"\"">> \o EscapeStr(s) \o <<"\"">>

\* json.Marshal of one dlnatitleEntry; "path" and "title" stand for the quoted keys
MarshalEntry(e) ==
    <<"{", "path", ":">> \o QuoteStr(e.path) \o <<",", "title", ":">> \o QuoteStr(e.title)
        \o <<"}">>

RECURSIVE MarshalEntries(_)
MarshalEntries(entries) ==
    IF Len(entries) = 1 THEN MarshalEntry(entries[1])
    ELSE MarshalEntry(Head(entries)) \o <<",">> \o MarshalEntries(Tail(entries))

\* json.Marshal of []dlnatitleEntry; a nil slice gives null
Marshal(entries) ==
    IF entries = <<>> THEN <<"null">> ELSE <<"[">> \o MarshalEntries(entries) \o <<"]">>

ParseFail == [ok |-> FALSE, val |-> <<>>, next |-> 0]

\* the characters of a JSON string from position i up to the closing quote
RECURSIVE ParseChars(_, _, _)
ParseChars(buf, i, acc) ==
    IF i > Len(buf) THEN ParseFail
    ELSE IF buf[i] = "\"" THEN [ok |-> TRUE, val |-> acc, next |-> i + 1]
    ELSE IF buf[i] = "\\"
         THEN IF i + 1 <= Len(buf) /\ buf[i + 1] \in { "\"", "\\" }
              THEN ParseChars(buf, i + 2, Append(acc, buf[i + 1]))
              ELSE ParseFail
    ELSE ParseChars(buf, i + 1, Append(acc, buf[i]))

ParseString(buf, i) ==
    IF i <= Len(buf) /\ buf[i] = "\"" THEN ParseChars(buf, i + 1, EmptyStr) ELSE ParseFail

\* the tokens toks at position i of buf
Expect(buf, i, toks) ==
    /\ i + Len(toks) - 1 <= Len(buf)
    /\ SubSeq(buf, i, i + Len(toks) - 1) = toks

\* one {"path": ..., "title": ...} object at position i
ParseEntry(buf, i) ==
    IF ~Expect(buf, i, <<"{", "path", ":">>) THEN ParseFail
    ELSE LET p == ParseString(buf, i + 3)
         IN IF ~p.ok \/ ~Expect(buf, p.next, <<",", "title", ":">>) THEN ParseFail
            ELSE LET t == ParseString(buf, p.next + 3)
                 IN IF ~t.ok \/ ~Expect(buf, t.next, <<"}">>) THEN ParseFail
                    ELSE [ok |-> TRUE, val |-> [path |-> p.val, title |-> t.val],
                          next |-> t.next + 1]

\* the objects of an array from position i up to the closing bracket
RECURSIVE ParseEntries(_, _, _)
ParseEntries(buf, i, acc) ==
    LET e == ParseEntry(buf, i)
    IN IF ~e.ok THEN ParseFail
       ELSE IF Expect(buf, e.next, <<"]">>)
            THEN IF e.next = Len(buf)
                 THEN [ok |-> TRUE, val |-> Append(acc, e.val), next |-> e.next + 1]
                 ELSE ParseFail
       ELSE IF Expect(buf, e.next, <<",">>)
            THEN ParseEntries(buf, e.next + 1, Append(acc, e.val))
       ELSE ParseFail

\* json.Unmarshal into []dlnatitleEntry: the entries, or an error
Unmarshal(buf) ==
    IF buf = <<"null">> \/ buf = <<"[", "]">> THEN [ok |-> TRUE, val |-> <<>>, next |-> 0]
    ELSE IF Expect(buf, 1, <<"[">>) THEN ParseEntries(buf, 2, <<>>)
    ELSE ParseFail

\* contents of the key before the calls: missing, written by an earlier call,
\* or damaged
FlatBufs ==
    { EmptyStr, Marshal(<< [path |-> Str1("z"), title |-> Str1("O")] >>), <<"[", "{">> }

\* settings.GetDLNATitle
Settings_GetDLNATitle(hash, path) ==
    LET h == normalizeDLNAHash(hash)
    IN IF ~tdbOpen \/ h = EmptyStr \/ path = EmptyStr THEN EmptyStr
       ELSE LET buf == IF h \in FlatHashes THEN flatBuf[h] ELSE EmptyStr
                u == Unmarshal(buf)
                hit == { i \in 1..Len(u.val) : u.val[i].path = path }
            IN IF Len(buf) = 0 \/ ~u.ok \/ hit = {} THEN EmptyStr
               ELSE u.val[CHOOSE i \in hit : \A j \in hit : i <= j].title

\* settings.SetDLNATitle, up to the read of the stored array
Settings_SetDLNATitle_Get(c, hash, path, title) ==
    /\ fl[c].pc = "idle"
    /\ LET h == normalizeDLNAHash(hash)
       IN IF ~tdbOpen \/ h = EmptyStr \/ path = EmptyStr
          THEN fl' = [fl EXCEPT ![c] = [FlatIdle EXCEPT !.pc = "done", !.hash = h,
                                                        !.path = path, !.title = title]]
          ELSE LET buf == flatBuf[h]
                   u == Unmarshal(buf)
               IN fl' = [fl EXCEPT ![c] =
                            [FlatIdle EXCEPT !.pc = "set", !.hash = h, !.path = path,
                                             !.title = title,
                                             !.entries = IF Len(buf) > 0 /\ u.ok
                                                         THEN u.val ELSE <<>>]]
    /\ UNCHANGED <<cfgVars, cacheVars, lockVars, ensureVars, opVars, gIn, gOut, linkVars,
                   nm, ct, flatBuf, pc, hashHex, last>>

\* settings.SetDLNATitle: the entries after the update loop and the append
SetEntry(entries, path, title) ==
    LET hit == { i \in 1..Len(entries) : entries[i].path = path }
    IN IF hit = {} THEN Append(entries, [path |-> path, title |-> title])
       ELSE [entries EXCEPT ![CHOOSE i \in hit : \A j \in hit : i <= j].title = title]

\* settings.SetDLNATitle, from the update of the local entries to the write
Settings_SetDLNATitle_Set(c) ==
    /\ fl[c].pc = "set"
    /\ flatBuf' = [flatBuf EXCEPT ![fl[c].hash] =
                      Marshal(SetEntry(fl[c].entries, fl[c].path, fl[c].title))]
    /\ fl' = [fl EXCEPT ![c].pc = "done", ![c].entries = <<>>]
    /\ UNCHANGED <<cfgVars, cacheVars, lockVars, ensureVars, opVars, gIn, gOut, linkVars,
                   nm, ct, pc, hashHex, last>>

\* a call of settings.GetDLNATitle by a goroutine whose SetDLNATitle returned
Settings_GetDLNATitle_Call(c, hash, path) ==
    /\ fl[c].pc = "done"
    /\ fl[c].got = <<"none">>
    /\ fl' = [fl EXCEPT ![c].got = Settings_GetDLNATitle(hash, path)]
    /\ UNCHANGED <<cfgVars, cacheVars, lockVars, ensureVars, opVars, gIn, gOut, linkVars,
                   nm, ct, flatBuf, pc, hashHex, last>>

\* ------------------------------------------- the paths createStreamLinkFiles builds
\* Both revisions of createStreamLinkFiles (streamlinks.go, dlnacache.go) on
\* their own: from the names of one torrent and one media file to the paths
\* handed to os.MkdirAll and os.WriteFile.  Paths are strings of characters
\* with "/" as the separator; ".strm", ".strmlnk" and ".hash" stand for the
\* characters of the extension and of the marker name.

\* strings.Split(s, "/")
RECURSIVE Split(_)
Split(s) ==
    IF \A i \in 1..Len(s) : s[i] # "/" THEN << s >>
    ELSE LET k == CHOOSE i \in 1..Len(s) : s[i] = "/" /\ \A j \in 1..(i - 1) : s[j] # "/"
         IN << SubSeq(s, 1, k - 1) >> \o Split(SubSeq(s, k + 1, Len(s)))

\* strings.Join(comps, "/")
RECURSIVE JoinSlash(_)
JoinSlash(comps) ==
    IF comps = <<>> THEN EmptyStr
    ELSE IF Len(comps) = 1 THEN comps[1]
    ELSE comps[1] \o <<"/">> \o JoinSlash(Tail(comps))

\* path.Clean: the components kept, empty ones and "." dropped, ".." taking
\* back the component before it, dropped at the root, kept at a relative start
RECURSIVE CleanFold(_, _, _)
CleanFold(comps, out, rooted) ==
    IF comps = <<>> THEN out
    ELSE LET c == Head(comps)
         IN IF c = EmptyStr \/ c = Str1(".") THEN CleanFold(Tail(comps), out, rooted)
            ELSE IF c = Str2(".", ".")
                 THEN IF out # <<>> /\ out[Len(out)] # Str2(".", ".")
                      THEN CleanFold(Tail(comps), SubSeq(out, 1, Len(out) - 1), rooted)
                      ELSE IF rooted THEN CleanFold(Tail(comps), out, rooted)
                      ELSE CleanFold(Tail(comps), Append(out, c), rooted)
            ELSE CleanFold(Tail(comps), Append(out, c), rooted)

\* path.Clean, and filepath.Clean where the separator is "/"
Clean(s) ==
    IF s = EmptyStr THEN Str1(".")
    ELSE LET rooted == s[1] = "/"
             out == JoinSlash(CleanFold(Split(s), <<>>, rooted))
         IN IF rooted THEN <<"/">> \o out
            ELSE IF out = EmptyStr THEN Str1(".") ELSE out

\* path.Join and filepath.Join: the non-empty elements joined, then cleaned
PathJoin(elems) ==
    LET ne == SelectSeq(elems, LAMBDA e : e # EmptyStr)
    IN IF ne = <<>> THEN EmptyStr ELSE Clean(JoinSlash(ne))

\* filepath.Dir: the path up to its last separator, cleaned
Dir(p) ==
    LET seps == { i \in 1..Len(p) : p[i] = "/" }
    IN IF seps = {} THEN Str1(".")
       ELSE Clean(SubSeq(p, 1, CHOOSE i \in seps : \A j \in seps : j <= i))

\* streamLinksRoot: the projection root
CtRoot == <<"/", "r">>

\* strings.ReplaceAll(s, "\\", "/")
ToSlashes(s) == [i \in 1..Len(s) |-> IF s[i] = "\\" THEN "/" ELSE s[i]]

\* strings.TrimPrefix(s, "./")
TrimDotSlash(s) ==
    IF Len(s) >= 2 /\ s[1] = "." /\ s[2] = "/" THEN SubSeq(s, 3, Len(s)) ELSE s

\* for strings.HasPrefix(s, "/") { s = strings.TrimPrefix(s, "/") }
RECURSIVE TrimSlashes(_)
TrimSlashes(s) == IF s # EmptyStr /\ s[1] = "/" THEN TrimSlashes(Tail(s)) ELSE s

\* streamlinks.go: the cleaned path of a media file
StrmCleaned(originalPath) == TrimSlashes(TrimDotSlash(Clean(ToSlashes(originalPath))))

\* streamlinks.go: whether the cleaned path is passed over
StrmSkipped(cleaned) ==
    \/ cleaned \in { EmptyStr, Str1("."), Str2(".", ".") }
    \/ (Len(cleaned) >= 3 /\ SubSeq(cleaned, 1, 3) = <<".", ".", "/">>)

\* streamlinks.go: the components, without the first one when it names the torrent
StrmComponents(all, rootNames) ==
    IF Len(all) > 1
       /\ ToLower(TrimSpace(IF sanitizeFileName(all[1]) = EmptyStr THEN all[1]
                            ELSE sanitizeFileName(all[1]))) \in rootNames
    THEN Tail(all) ELSE all

\* streamlinks.go: the relative path of the .strm file from the components
StrmJoin(components) ==
    IF components[Len(components)] \in { EmptyStr, Str1(".") }
    THEN [ok |-> FALSE, rel |-> EmptyStr]
    ELSE [ok |-> TRUE,
          rel |-> IF Len(components) > 1
                  THEN PathJoin([components EXCEPT ![Len(components)] = @ \o <<".strm">>])
                  ELSE components[1] \o <<".strm">>]

\* streamlinks.go, the loop body up to the relative path of the .strm file;
\* ok is FALSE where the code goes on to the next file
StrmRelative(filePath, rootNames) ==
    LET originalPath == TrimSpace(filePath)
        cleaned == StrmCleaned(originalPath)
    IN IF originalPath = EmptyStr \/ StrmSkipped(cleaned) THEN [ok |-> FALSE, rel |-> EmptyStr]
       ELSE StrmJoin(StrmComponents(Split(cleaned), rootNames))

\* dlnacache.go, the loop body up to the name of the .strmlnk file; looked is
\* what dlnatitles.Lookup returned, count the earlier files of that base name
LnkRelative(filePath, looked, id, count) ==
    LET t == TrimSpace(looked)
        title == IF t = EmptyStr THEN Base(filePath) ELSE t
        b == sanitizeFileName(title)
        baseName == IF b = EmptyStr THEN FileDash(id) ELSE b
    IN LinkName(baseName, count) \o <<".strmlnk">>

\* torrent titles and info names, with separators and dots in them
CtTitles ==
    { EmptyStr, Str1("M"), Str2(".", "."), <<".", ".", "/", "M">>, <<"/", "M">>,
      <<"a", "/", "b">>, <<"a", "/", ".", ".", "/", ".", ".", "/", "b">>,
      <<".", ".", "\\", "M">> }

CtInfos == { EmptyStr, Str2(".", "."), <<"I", "/", "J">> }

\* media file paths: plain, nested, with "..", rooted, with backslashes, and
\* under a first component named like the torrent
CtPaths ==
    { Str1("x"), <<"d", "/", "x">>, <<".", ".", "/", "x">>, <<"/", "x">>,
      <<"/", ".", ".", "/", "x">>, <<"a", "/", ".", ".", "/", ".", ".", "/", "x">>,
      <<".", ".", "\\", "x">>, <<"\\", "x">>, <<"d", "\\", ".", ".", "\\", ".", ".", "\\", "x">>,
      Str2(".", "."), <<".", "/", "x">>, <<"/", "/", "d", "/", ".", "/", "x">>,
      <<"M", "/", "x">>, <<"M", "/", ".", ".", "/", ".", ".", "/", "x">>,
      <<"d", "/", ".", ".", ".">>, <<"C", ":", "/", "x">> }

\* titles found in the cache for the file
CtCached ==
    { Str1("T"), Str2(".", "."), <<".", ".", "/", "T">>, <<"/", "T">>,
      <<"a", "/", ".", ".", "/", ".", ".", "/", ".", ".", "/", "T">>, <<".", ".", "\\", "T">>,
      Str1(" ") }

CtIdle == [rev |-> "none", title |-> EmptyStr, info |-> EmptyStr, path |-> EmptyStr,
           looked |-> EmptyStr, dir |-> EmptyStr, made |-> {}, wrote |-> {}]

\* createStreamLinkFiles of streamlinks.go for one media file: the directories
\* made and the files written
StrmStep(title, info, h, filePath) ==
    /\ ct = CtIdle
    /\ LET titleSanitized == sanitizeFileName(title)
           infoNameSanitized == sanitizeFileName(info)
           dirName == DirName(title, info, h)
           rootNames == { ToLower(n) : n \in { titleSanitized, infoNameSanitized, dirName }
                                                \ { EmptyStr } }
           torrentDir == PathJoin(<< CtRoot, dirName >>)
           r == StrmRelative(filePath, rootNames)
           fsPath == PathJoin(<< torrentDir, r.rel >>)
       IN ct' = [rev |-> "strm", title |-> title, info |-> info, path |-> filePath,
                 looked |-> EmptyStr, dir |-> torrentDir,
                 made |-> { CtRoot, torrentDir } \cup (IF r.ok THEN { Dir(fsPath) } ELSE {}),
                 wrote |-> { PathJoin(<< torrentDir, <<".hash">> >>) }
                               \cup (IF r.ok THEN { fsPath } ELSE {})]
    /\ UNCHANGED <<cfgVars, cacheVars, lockVars, ensureVars, opVars, gIn, gOut, linkVars,
                   nm, flatBuf, fl, pc, hashHex, last>>

\* createStreamLinkFiles of dlnacache.go for one media file
LnkStep(title, info, h, filePath, looked, count) ==
    /\ ct = CtIdle
    /\ LET torrentDir == PathJoin(<< CtRoot, DirName(title, info, h) >>)
           fsPath == PathJoin(<< torrentDir, LnkRelative(filePath, looked, 1, count) >>)
       IN ct' = [rev |-> "strmlnk", title |-> title, info |-> info, path |-> filePath,
                 looked |-> looked, dir |-> torrentDir,
                 made |-> { CtRoot, torrentDir },
                 wrote |-> { PathJoin(<< torrentDir, <<".hash">> >>), fsPath }]
    /\ UNCHANGED <<cfgVars, cacheVars, lockVars, ensureVars, opVars, gIn, gOut, linkVars,
                   nm, flatBuf, fl, pc, hashHex, last>>

\* ------------------------------------------- the generator on its own
GenInputs ==
    [path : { Str1("x"), Str2("x", " ") }, cfg : BOOLEAN,
     r1 : Replies, r2 : Replies, r3 : Replies]

GenPending == GenResult(EmptyStr, "pending", 0)

\* one call of generateNormalizedTitle against a stub provider
Generate ==
    /\ gOut = GenPending
    /\ gOut' = generateNormalizedTitle(gIn.path, gIn.cfg, gIn.r1, gIn.r2, gIn.r3)
    /\ UNCHANGED <<cfgVars, cacheVars, lockVars, ensureVars, opVars, gIn, linkVars, auxVars,
                   pc, hashHex, last>>

\* ------------------------------------------------------ specifications
GenIdle == [path |-> Str1("x"), cfg |-> FALSE,
            r1 |-> Reply("transport", EmptyStr), r2 |-> Reply("transport", EmptyStr),
            r3 |-> Reply("transport", EmptyStr)]

InitCommon ==
    /\ listCache = {}
    /\ dataCache = {}
    /\ dbBuckets = {}
    /\ dbEntries = [h \in BucketHashes |-> {}]
    /\ ensureLocks = [h \in NormHashes |-> 0]
    /\ locked = {}
    /\ pc = [c \in Procs |-> "idle"]
    /\ hashHex = [c \in Procs |-> EmptyStr]
    /\ uniquePaths = [c \in Procs |-> <<>>]
    /\ mu = [c \in Procs |-> 0]
    /\ titles = [c \in Procs |-> {}]
    /\ next = [c \in Procs |-> 1]
    /\ inflight = [c \in Procs |-> {}]
    /\ gen = [c \in Procs |-> {}]
    /\ argTitles = [c \in Procs |-> {}]
    /\ argPath = [c \in Procs |-> EmptyStr]
    /\ tmp = [c \in Procs |-> EmptyStr]
    /\ ret = [c \in Procs |-> "idle"]
    /\ last = NoCall
    /\ fsDirs = {}
    /\ fsMarker = [d \in DirNames |-> EmptyStr]
    /\ fsFiles = [d \in DirNames |-> {}]
    /\ pj = [c \in LinkProcs |-> ProjIdle]
    /\ hist = NoHist
    /\ nm = NameIdle
    /\ ct = CtIdle
    /\ fl = [c \in FlatProcs |-> FlatIdle]
    /\ snap = [c \in Procs |->
                 [has |-> FALSE, cache |-> <<{}, {}, {}, [h \in BucketHashes |-> {}]>>,
                  prior |-> {}, hash |-> EmptyStr]]

\* the state after construction, over a file system that does not fail
InitState == InitCommon /\ fsFaulty = FALSE /\ flatBuf = [h \in FlatHashes |-> EmptyStr]

\* concurrent EnsureTorrent callers for one torrent
Init ==
    /\ InitState
    /\ tdbOpen \in BOOLEAN
    /\ ReadOnly \in BOOLEAN
    /\ configured \in BOOLEAN
    /\ workersCfg \in 0..MaxWorkersCfg
    /\ listing \in PathLists
    /\ gIn = GenIdle
    /\ gOut = GenPending

EnsureStep(c) ==
    \/ LockLoad(c)
    \/ LockAcquire(c)
    \/ EnsureCheck(c)
    \/ EnsureSpawn(c)
    \/ \E path \in Paths : EnsureWorker(c, path)
    \/ EnsureWait(c)
    \/ EnsureStore(c)
    \/ StoreList(c)
    \/ StoreData(c)
    \/ StoreDurable(c)
    \/ EnsureUnlock(c)
    \/ EnsureDelete(c)

\* callers are numbered in the order in which they enter EnsureTorrent
Entered(c) == \A d \in Procs : d < c => pc[d] # "idle"

Next ==
    /\ \E c \in Procs :
          \/ \E hash \in OneTorrent : Entered(c) /\ EnsureBegin(c, hash)
          \/ EnsureStep(c)
    /\ UNCHANGED last

Spec == Init /\ [][Next]_vars

\* concurrent EnsureTorrent callers for one torrent, every provider call
\* returns, and the scheduler lets every goroutine that can run take its step
InitLive ==
    /\ InitState
    /\ tdbOpen \in BOOLEAN
    /\ ReadOnly = FALSE
    /\ configured = TRUE
    /\ workersCfg = 1
    /\ listing \in { <<Str1("x"), Str1("y")>>, <<Str1(" ")>> }
    /\ gIn = GenIdle
    /\ gOut = GenPending

SpecLive ==
    /\ InitLive
    /\ [][Next]_vars
    /\ \A c \in Procs : WF_<<pc, next, inflight>>(EnsureStep(c))

\* concurrent EnsureTorrent callers on the same and on different torrents
InitLocks ==
    /\ InitState
    /\ tdbOpen \in BOOLEAN
    /\ ReadOnly = FALSE
    /\ configured = FALSE
    /\ workersCfg = 0
    /\ listing \in { <<>>, <<Str1("x")>> }
    /\ gIn = GenIdle
    /\ gOut = GenPending

NextLocks ==
    /\ \E c \in Procs :
          \/ \E hash \in HashInputs : Entered(c) /\ EnsureBegin(c, hash)
          \/ EnsureStep(c)
    /\ UNCHANGED last

SpecLocks == InitLocks /\ [][NextLocks]_vars

\* no call is in progress
Quiet == \A c \in Procs : pc[c] \in { "idle", "done" }

\* EnsureTorrent calls made one after the other
NextSeq ==
    /\ \E c \in Procs :
          \/ \E hash \in HashInputs : Quiet /\ Entered(c) /\ EnsureBegin(c, hash)
          \/ EnsureStep(c)
    /\ UNCHANGED last

SpecSeq == Init /\ [][NextSeq]_vars


\* direct callers of the cache
InitCache ==
    /\ InitState
    /\ tdbOpen \in BOOLEAN
    /\ ReadOnly \in BOOLEAN
    /\ configured = TRUE
    /\ workersCfg = 0
    /\ listing = <<>>
    /\ gIn = GenIdle
    /\ gOut = GenPending

StoreStep(c) ==
    \/ StoreList(c)
    \/ StoreData(c)
    \/ StoreDurable(c)

CacheStep(c) ==
    \/ StoreStep(c)
    \/ RemList(c)
    \/ RemData(c)
    \/ RemDurable(c)
    \/ GetCache(c)
    \/ GetRead(c)
    \/ GetFill(c)

ListStep(c) ==
    \/ ListRead(c)
    \/ ListFill(c)

CacheProcs == 1..NumCacheProcs

NextCache ==
    /\ \E c \in CacheProcs :
          \/ \E ts \in TitleMaps : StoreBegin(c, Str1("a"), ts)
          \/ RemBegin(c, Str1("a"))
          \/ \E path \in ReadPaths : GetBegin(c, Str1("a"), path)
          \/ CacheStep(c)
    /\ UNCHANGED last

\* concurrent StoreDLNATitles, RemDLNATitles and GetDLNATitle calls, all for
\* one torrent; HasDLNATitleBucket changes nothing and is read off the state
SpecCache == InitCache /\ [][NextCache]_vars

NextCacheSeq ==
    \E c \in Procs :
       \/ /\ Quiet
          /\ \/ \E hash \in HashInputs, ts \in TitleMaps :
                   StoreBegin(c, hash, ts) /\ last' = Called("store", hash, ts)
             \/ \E hash \in HashInputs :
                   RemBegin(c, hash) /\ last' = Called("rem", hash, {})
             \/ \E hash \in HashInputs, path \in ReadPaths :
                   GetBegin(c, hash, path) /\ last' = Called("get", hash, {})
             \/ \E hash \in HashInputs :
                   ListBegin(c, hash) /\ last' = Called("list", hash, {})
             \/ \E hash \in HashInputs :
                   HasCall(c, hash) /\ last' = Called("has", hash, {})
       \/ (CacheStep(c) \/ ListStep(c)) /\ UNCHANGED last

\* calls into the cache made one after the other
SpecCacheSeq == InitCache /\ [][NextCacheSeq]_vars

\* two torrents, the hash of one a prefix of the hash of the other
FrameHashes == { Str1("a"), Str2("a", "b") }

FrameMaps == { { <<Str1("x"), Str1("T")>> }, { <<Str1("x"), Str1("U")>>, <<Str1("y"), Str1("T")>> } }

\* StoreDLNATitles and RemDLNATitles for two torrents, between reads that
\* fill the memory layer, one call after the other
NextFrame ==
    \/ /\ Quiet
       /\ \E hash \in FrameHashes :
             \/ \E ts \in FrameMaps :
                   StoreBegin(1, hash, ts) /\ last' = Called("store", hash, ts)
             \/ RemBegin(1, hash) /\ last' = Called("rem", hash, {})
             \/ \E path \in { Str1("x"), Str1("y") } :
                   GetBegin(1, hash, path) /\ last' = Called("get", hash, {})
             \/ ListBegin(1, hash) /\ last' = Called("list", hash, {})
    \/ (CacheStep(1) \/ ListStep(1)) /\ UNCHANGED last

InitFrame ==
    /\ InitState
    /\ tdbOpen = TRUE
    /\ ReadOnly = FALSE
    /\ configured = TRUE
    /\ workersCfg = 0
    /\ listing = <<>>
    /\ gIn = GenIdle
    /\ gOut = GenPending

SpecFrame == InitFrame /\ [][NextFrame]_vars

\* the paths handed to SetDLNATitle
SetPaths == { EmptyStr, Str1("x") }

InitTitles ==
    /\ InitState
    /\ tdbOpen \in BOOLEAN
    /\ ReadOnly \in BOOLEAN
    /\ configured = TRUE
    /\ workersCfg = 0
    /\ listing \in { <<Str1("x")>>, <<Str1("x"), Str1("y")>> }
    /\ gIn = GenIdle
    /\ gOut = GenPending

RemStep(c) ==
    \/ RemList(c)
    \/ RemData(c)
    \/ RemDurable(c)

\* EnsureTorrent, StoreDLNATitles, SetDLNATitle and RemDLNATitles calls for one
\* torrent, made one after the other
NextTitles ==
    \E c \in Procs :
       \/ /\ Quiet
          /\ \/ /\ Entered(c) /\ EnsureBegin(c, Str1("a"))
                /\ last' = Called("ensure", Str1("a"), {})
             \/ \E ts \in TitleMaps :
                   StoreBegin(c, Str1("a"), ts) /\ last' = Called("store", Str1("a"), ts)
             \/ \E path \in SetPaths, title \in SetTitles :
                   /\ SetCall(c, Str1("a"), path, title)
                   /\ last' = Called("set", Str1("a"), { <<path, title>> })
             \/ RemBegin(c, Str1("a")) /\ last' = Called("rem", Str1("a"), {})
       \/ (EnsureStep(c) \/ RemStep(c)) /\ UNCHANGED last

SpecTitles == InitTitles /\ [][NextTitles]_vars

\* the five entry points called one after the other with every spelling of
\* the hash
InitEntry ==
    /\ InitState
    /\ tdbOpen \in BOOLEAN
    /\ ReadOnly = FALSE
    /\ configured = TRUE
    /\ workersCfg = 0
    /\ listing = <<Str1("x")>>
    /\ gIn = GenIdle
    /\ gOut = GenPending

EntryMaps == { {}, { <<Str1("x"), Str1("U")>> } }

\* three spellings of the hash: normalized, not normalized, blank
EntryHashes == { Str1("a"), Str2("A", " "), Str1(" ") }

GetStep(c) ==
    \/ GetCache(c)
    \/ GetRead(c)
    \/ GetFill(c)

NextEntry ==
    \E c \in Procs :
       \/ /\ Quiet
          /\ \E hash \in EntryHashes :
                \/ /\ Entered(c) /\ EnsureBegin(c, hash)
                   /\ last' = Called("ensure", hash, {})
                \/ \E ts \in EntryMaps :
                      StoreBegin(c, hash, ts) /\ last' = Called("store", hash, ts)
                \/ RemBegin(c, hash) /\ last' = Called("rem", hash, {})
                \/ GetBegin(c, hash, Str1("x")) /\ last' = Called("get", hash, {})
                \/ HasCall(c, hash) /\ last' = Called("has", hash, {})
       \/ (EnsureStep(c) \/ RemStep(c) \/ GetStep(c)) /\ UNCHANGED last

SpecEntry == InitEntry /\ [][NextEntry]_vars

\* the titles the cache holds for torrent "a" when the projector runs
LinkTitleMaps ==
    { {},
      { <<Str1("x"), Str1("T")>>, <<Str1("y"), Str1("T")>>, <<<<"d", "/", "x">>, Str1("T")>> },
      { <<Str1("x"), Str1("T")>>, <<Str1("y"), <<"T", " ", "(", "2", ")">>>>,
        <<<<"d", "/", "x">>, Str1("T")>> } }

\* createStreamLinkFiles calls made one after the other, for two torrents,
\* over a cache that holds a bucket for torrent "a" or none
InitLinks ==
    /\ InitState
    /\ tdbOpen = TRUE
    /\ ReadOnly = FALSE
    /\ configured = TRUE
    /\ workersCfg = 0
    /\ listing = <<>>
    /\ gIn = GenIdle
    /\ gOut = GenPending

\* the bucket of torrent "a" is created before the projector runs
LinkStore ==
    /\ \A c \in LinkProcs : pj[c].pc = "idle"
    /\ hist.ran = {} /\ dbBuckets = {}
    /\ \E ts \in LinkTitleMaps \ { {} } :
          /\ dbBuckets' = { Str1("a") }
          /\ dbEntries' = [dbEntries EXCEPT ![Str1("a")] = ts]
    /\ UNCHANGED <<cfgVars, listCache, dataCache, lockVars, ensureVars, opVars, genVars,
                   pc, hashHex, last>>

NextLinks ==
    \/ LinkStore
    \/ \E hash \in LinkHashes, title \in LinkTitles, info \in LinkInfos, root \in BOOLEAN :
          ProjBegin(1, hash, title, info, root)
    \/ ProjRemove(1)
    \/ ProjMkdir(1)
    \/ ProjFile(1)
    \/ ProjMarker(1)

SpecLinks == InitLinks /\ [][NextLinks]_vars

\* createStreamLinkFiles calls made one after the other over a file system
\* whose calls can fail
InitLinksFaulty ==
    /\ InitCommon
    /\ fsFaulty = TRUE
    /\ flatBuf = [h \in FlatHashes |-> EmptyStr]
    /\ tdbOpen = TRUE
    /\ ReadOnly = FALSE
    /\ configured = TRUE
    /\ workersCfg = 0
    /\ listing = <<>>
    /\ gIn = GenIdle
    /\ gOut = GenPending

NextLinksFaulty ==
    \/ LinkStore
    \/ \E title \in LinkTitles : ProjBegin(1, Str1("a"), title, Str1("I"), TRUE)
    \/ ProjRemove(1)
    \/ ProjMkdir(1)
    \/ ProjFile(1)
    \/ ProjMarker(1)

SpecLinksFaulty == InitLinksFaulty /\ [][NextLinksFaulty]_vars

\* the steps of a running createStreamLinkFiles call
ProjStep(c) ==
    \/ ProjRemove(c)
    \/ ProjMkdir(c)
    \/ ProjFile(c)
    \/ ProjMarker(c)

\* ensureDLNATitles: dlnatitles.EnsureTorrent has returned and
\* createStreamLinkFiles is called, once per goroutine
ensureDLNATitles(c, title, info) ==
    /\ pc[c] = "done"
    /\ pj[c] = ProjIdle
    /\ ProjBegin(c, hashHex[c], title, info, TRUE)

\* goroutines that run ensureDLNATitles for one torrent at the same time
InitLinksPar ==
    /\ InitState
    /\ tdbOpen = TRUE
    /\ ReadOnly = FALSE
    /\ configured = TRUE
    /\ workersCfg = 1
    /\ listing = <<Str1("x"), Str1("y")>>
    /\ gIn = GenIdle
    /\ gOut = GenPending

NextLinksPar ==
    \E c \in LinkProcs :
       \/ EnsureBegin(c, Str1("a")) /\ UNCHANGED last
       \/ EnsureStep(c) /\ UNCHANGED last
       \/ ensureDLNATitles(c, Str1("M"), Str1("I"))
       \/ ProjStep(c)

SpecLinksPar == InitLinksPar /\ [][NextLinksPar]_vars

\* the directory naming alone: every title, info name and hash of the inputs
InitNames ==
    /\ InitState
    /\ tdbOpen = TRUE
    /\ ReadOnly = FALSE
    /\ configured = TRUE
    /\ workersCfg = 0
    /\ listing = <<>>
    /\ gIn = GenIdle
    /\ gOut = GenPending

NextNames ==
    \E title \in NameTitles, info \in NameInfos, hash \in LinkHashes :
        NameStep(title, info, hash)

SpecNames == InitNames /\ [][NextNames]_vars

\* the flat encoding: every goroutine calls SetDLNATitle once, then GetDLNATitle
InitFlat ==
    /\ InitCommon
    /\ fsFaulty = FALSE
    /\ flatBuf \in [FlatHashes -> FlatBufs]
    /\ tdbOpen \in BOOLEAN
    /\ ReadOnly = FALSE
    /\ configured = TRUE
    /\ workersCfg = 0
    /\ listing = <<>>
    /\ gIn = GenIdle
    /\ gOut = GenPending

NextFlat ==
    \E c \in FlatProcs :
        \/ \E hash \in FlatHashForms, path \in FlatPaths, title \in FlatTitles :
               Settings_SetDLNATitle_Get(c, hash, path, title)
        \/ Settings_SetDLNATitle_Set(c)
        \/ \E hash \in FlatHashForms, path \in FlatPaths :
               Settings_GetDLNATitle_Call(c, hash, path)

SpecFlat == InitFlat /\ [][NextFlat]_vars

\* the path building alone, for every combination of the names
InitPaths ==
    /\ InitState
    /\ tdbOpen = TRUE
    /\ ReadOnly = FALSE
    /\ configured = TRUE
    /\ workersCfg = 0
    /\ listing = <<>>
    /\ gIn = GenIdle
    /\ gOut = GenPending

NextPaths ==
    \E title \in CtTitles, info \in CtInfos, filePath \in CtPaths :
        \/ StrmStep(title, info, Str1("a"), filePath)
        \/ \E looked \in CtCached \cup { filePath }, count \in 0..1 :
               LnkStep(title, info, Str1("a"), filePath, looked, count)

SpecPaths == InitPaths /\ [][NextPaths]_vars

\* every entry point called, one call after the other, while the durable
\* store is not open; the file of the store may hold a bucket of an earlier run
InitClosed ==
    /\ InitState
    /\ tdbOpen = FALSE
    /\ ReadOnly \in BOOLEAN
    /\ configured \in BOOLEAN
    /\ workersCfg = 1
    /\ listing = <<Str1("x")>>
    /\ gIn = GenIdle
    /\ gOut = GenPending

ProjQuiet == \A c \in LinkProcs : pj[c].pc = "idle"

\* two spellings of the hash: not normalized, blank
ClosedHashes == { Str2("A", " "), Str1(" ") }

\* goroutine 1 calls EnsureTorrent, goroutine 2 the cache, and the projector runs
NextClosed ==
    \/ LinkStore /\ Quiet
    \/ /\ Quiet /\ ProjQuiet
       /\ \E hash \in ClosedHashes :
             \/ /\ EnsureBegin(1, hash)
                /\ last' = Called("ensure", hash, {})
             \/ \E ts \in EntryMaps :
                   StoreBegin(2, hash, ts) /\ last' = Called("store", hash, ts)
             \/ \E path \in SetPaths :
                   /\ SetCall(2, hash, path, Str1("T"))
                   /\ last' = Called("set", hash, { <<path, Str1("T")>> })
             \/ RemBegin(2, hash) /\ last' = Called("rem", hash, {})
             \/ GetBegin(2, hash, Str1("x")) /\ last' = Called("get", hash, {})
             \/ HasCall(2, hash) /\ last' = Called("has", hash, {})
    \/ EnsureStep(1) /\ UNCHANGED last
    \/ /\ Quiet
       /\ ProjBegin(1, Str1("a"), Str1("M"), Str1("I"), TRUE)
    \/ ProjStep(1)

SpecClosed ==
    /\ InitClosed
    /\ [][NextClosed]_vars
    /\ WF_<<pc, next, inflight>>(EnsureStep(1))

\* the generator against every stub provider
InitGen ==
    /\ InitState
    /\ tdbOpen = TRUE
    /\ ReadOnly = FALSE
    /\ configured = TRUE
    /\ workersCfg = 0
    /\ listing = <<>>
    /\ gIn \in GenInputs
    /\ gOut = GenPending

SpecGen == InitGen /\ [][Generate]_vars

\* ================================================================ claims
\* the non-empty paths of the listing; whether they are free of surrounding
\* blanks; whether one of them is not blank
Known == { listing[i] : i \in 1..Len(listing) } \ { EmptyStr }
Trimmed == \A p \in Known : TrimSpace(p) = p
NonBlank == \E p \in Known : TrimSpace(p) # EmptyStr

\* the callers that are between the return of lockTorrent and the call of unlock
Holders(h) == { c \in Procs : InCritical(c) /\ hashHex[c] = h }

\* C1: callers of EnsureTorrent whose TorrentId normalizes to the same value
\* are never two at a time between the return of lockTorrent and the call of
\* their unlock function.
C1_MutualExclusion == \A h \in NormHashes : Cardinality(Holders(h)) <= 1

\* the callers that called the provider for a path
Generators(p) == { c \in Procs : \E e \in gen[c] : e[1] = p /\ e[2].called }

\* C2: with an open, writable cache and no bucket at the start, concurrent
\* callers with identical arguments produce one batch of provider calls: no
\* path is generated by two callers.
C2_OneBatch ==
    (tdbOpen /\ ~ReadOnly) => \A p \in Known : Cardinality(Generators(p)) <= 1

\* C2 for listings that hold a path that is not blank: one batch, although
\* C1 fails, because the first holder stores the bucket before it unlocks
C2_OneBatchNonBlank == NonBlank => C2_OneBatch

\* the call that entered last
Latest(c) == pc[c] # "idle" /\ \A d \in Procs : d > c => pc[d] = "idle"

\* C3 (as amended): an EnsureTorrent call that is entered while
\* HasDLNATitleBucket(id) is true generates nothing and leaves the listing
\* cache, the data cache and the durable buckets as they were.
C3_NoopOnceBucket ==
    \A c \in Procs :
        (Latest(c) /\ snap[c].has) => (gen[c] = {} /\ cacheVars = snap[c].cache)

\* a second call has returned through the fast path after a first call that
\* called the provider
C3_Witness ==
    \E c \in Procs, d \in Procs :
        /\ pc[c] = "done" /\ snap[c].has /\ d \in snap[c].prior
        /\ snap[d].hash = snap[c].hash
        /\ \E e \in gen[d] : e[2].called

\* C3 (as written): the second of two calls in sequence with the same id and
\* paths issues no provider call and changes no cache state (stated for
\* listings that hold a path that is not blank).
C3_SecondCallNoop ==
    \A c \in Procs, d \in Procs :
        (/\ Latest(c) /\ d \in snap[c].prior /\ snap[d].hash = snap[c].hash
         /\ hashHex[c] # EmptyStr /\ NonBlank)
        => ((\A e \in gen[c] : ~e[2].called) /\ cacheVars = snap[c].cache)

\* C4: HasDLNATitleBucket(id) is true exactly when GetDLNATitle(id, p) is
\* non-empty for every known path p of the listing.
C4_BucketAtomic ==
    \A h \in NormHashes :
        Known # {} =>
            (HasDLNATitleBucket(h) <=> \A p \in Known : GetDLNATitle(h, p) # EmptyStr)

\* C4 on listings free of surrounding blanks
C4_BucketAtomicTrimmed == Trimmed => C4_BucketAtomic

\* the keys of a map whose trimmed form is not blank and is shared with no
\* other key
KeptKeys(ts) ==
    { p \in Dom(ts) : /\ TrimSpace(p) # EmptyStr
                      /\ \A q \in Dom(ts) : TrimSpace(q) = TrimSpace(p) => q = p }

\* the keys of a map that have no surrounding blanks
TrimmedKeys(ts) == { p \in Dom(ts) : p # EmptyStr /\ TrimSpace(p) = p }

C6_DropCoherent ==
    (Quiet /\ last.op = "rem") =>
        LET h == normalizeDLNAHash(last.hash)
        IN /\ h # EmptyStr => \A layer \in Layers : ~hasDLNATitleBucket(layer, h)
           /\ ~HasDLNATitleBucket(last.hash)
           /\ \A p \in Paths : GetDLNATitle(last.hash, p) = EmptyStr

\* a bucket was dropped that had a durable bucket, a cached listing and
\* cached data
C6_Witness == Quiet /\ last.op = "rem" /\ last.had /\ last.list /\ last.data

\* C7: whenever no call is running, the memory layer's answer agrees with the
\* durable layer: HasDLNATitleBucket(id) is true exactly when the durable
\* sub-bucket of id exists.
C7_Coherent ==
    (\A c \in Procs : pc[c] = "idle") =>
        \A h \in NormHashes : tdbOpen => (HasDLNATitleBucket(h) <=> h \in dbBuckets)

\* the three replies as requestNormalizedTitle returns them
Req(i) == requestNormalizedTitle(IF i = 1 THEN gIn.r1 ELSE IF i = 2 THEN gIn.r2 ELSE gIn.r3)
GenDone == gOut # GenPending

\* C8: for successful replies r1, r2, r3: r1 = r2 gives r1 with 2 calls;
\* otherwise 3 calls and r1 if r3 = r1, r2 if r3 = r2, and else an error
\* with the path as title; an accepted title was returned by two issued calls.
C8_Voting ==
    (GenDone /\ gIn.cfg) =>
        /\ (~Req(1).err /\ ~Req(2).err /\ Req(1).title = Req(2).title)
              => gOut = GenResult(Req(1).title, "none", 2)
        /\ (~Req(1).err /\ ~Req(2).err /\ ~Req(3).err /\ Req(1).title # Req(2).title)
              => /\ gOut.calls = 3
                 /\ Req(3).title = Req(1).title => (gOut.title = Req(1).title /\ gOut.err = "none")
                 /\ Req(3).title = Req(2).title => (gOut.title = Req(2).title /\ gOut.err = "none")
                 /\ Req(3).title \notin { Req(1).title, Req(2).title }
                       => (gOut.title = gIn.path /\ gOut.err = "inconsistent")
        /\ gOut.err = "none"
              => Cardinality({ i \in 1..gOut.calls : ~Req(i).err /\ Req(i).title = gOut.title }) >= 2

\* the third reply decided for the second
C8_Witness ==
    /\ GenDone /\ gIn.cfg /\ gOut.calls = 3 /\ gOut.err = "none"
    /\ gOut.title = Req(2).title /\ gOut.title # Req(1).title

\* C9: the first failing provider call ends the generation with an error and
\* the path as title: the number of calls is the index of that call, and is
\* never more than 3.
C9_FailFast ==
    GenDone =>
        /\ gOut.calls <= 3
        /\ gIn.cfg =>
              /\ Req(1).err => gOut = GenResult(gIn.path, "request", 1)
              /\ (~Req(1).err /\ Req(2).err) => gOut = GenResult(gIn.path, "request", 2)
              /\ (~Req(1).err /\ ~Req(2).err /\ Req(1).title # Req(2).title /\ Req(3).err)
                    => gOut = GenResult(gIn.path, "request", 3)

\* the second call failed on a non-2xx status and no third call was made
C9_Witness ==
    /\ GenDone /\ gIn.cfg /\ ~Req(1).err /\ gIn.r2.kind = "status" /\ ~Req(3).err
    /\ gOut.calls = 2 /\ gOut.err = "request"

\* the map a call should store: the accepted title of a path whose generation
\* succeeded, the path itself otherwise
Expected(c) == { <<e[1], IF e[2].ok THEN e[2].title ELSE e[1]>> : e \in gen[c] }

\* the step of c creates the bucket of its torrent
Creates(c) ==
    /\ pc[c] = "storeDurable" /\ pc'[c] = "unlock"
    /\ hashHex[c] \notin dbBuckets /\ hashHex[c] \in dbBuckets'

\* C10: when EnsureTorrent stores a bucket, the stored map has one entry for
\* every unique non-empty input path: the accepted title where the generation
\* succeeded, the original path where it failed.
C10_StoredMap ==
    [][\A c \in Procs :
          Creates(c) => (dbEntries'[hashHex[c]] = Expected(c) /\ Dom(Expected(c)) = Known)]_vars

\* C10 on listings free of surrounding blanks
C10_StoredMapTrimmed ==
    [][\A c \in Procs :
          (Creates(c) /\ Trimmed)
             => (dbEntries'[hashHex[c]] = Expected(c) /\ Dom(Expected(c)) = Known)]_vars


\* C11: every entry stored in the durable layer has a non-empty title, after
\* any sequence of EnsureTorrent, StoreDLNATitles and SetDLNATitle calls.
C11_NoEmptyTitle ==
    \A h \in NormHashes : \A e \in dbEntries[h] : e[2] # EmptyStr

\* C11 for the entries a StoreDLNATitles call writes, with no SetDLNATitle
C11_StoreNoEmptyTitle ==
    [][\A c \in Procs :
          (pc[c] = "storeDurable" /\ pc'[c] # "storeDurable")
             => \A e \in dbEntries'[hashHex[c]] : e[2] # EmptyStr]_vars


\* a caller completes the durable step of storeDLNATitles
StoreTaken == \E c \in Procs : pc[c] = "storeDurable" /\ pc'[c] # "storeDurable"

\* C12 (as amended): a StoreDLNATitles call, direct or from EnsureTorrent, on
\* a torrent whose bucket exists leaves every entry of the bucket as it was,
\* and StoreDLNATitles with an empty map creates no bucket.
C12_FirstWriterWins ==
    /\ [][StoreTaken =>
             \A h \in dbBuckets : h \in dbBuckets' /\ dbEntries'[h] = dbEntries[h]]_vars
    /\ []((Quiet /\ last.op = "store" /\ last.ts = {})
             => (normalizeDLNAHash(last.hash) \in dbBuckets <=> last.had))

\* a store with other titles has returned and the bucket kept its own
C12_Witness ==
    /\ Quiet /\ last.op = "store" /\ last.had /\ tdbOpen /\ ~ReadOnly
    /\ \E e \in dbEntries[normalizeDLNAHash(last.hash)] :
          e[1] \in Dom(last.ts) /\ MapGet(last.ts, e[1]) # e[2]

\* C12 (as written): the contents of a bucket never change between its
\* creation and its removal.
C12_ContentsFixed ==
    [][\A h \in dbBuckets : h \in dbBuckets' => dbEntries'[h] = dbEntries[h]]_vars


\* the worker count the design text prescribes
EffectiveWorkers == IF workersCfg > 0 THEN workersCfg ELSE DefaultDLNATitleWorkers

\* C13: within one EnsureTorrent call the generations in flight are never
\* more than the effective worker count: the configured DLNATitleWorkers when
\* it is > 0 and the default otherwise; the effective count is at least 1.
C13_BoundedParallelism ==
    /\ EffectiveWorkers >= 1
    /\ \A c \in Procs : Cardinality(inflight[c]) <= EffectiveWorkers

\* every slot is taken while a path still waits to be launched
C13_Witness ==
    \E c \in Procs :
        /\ pc[c] = "spawn" /\ next[c] <= Len(uniquePaths[c])
        /\ Cardinality(inflight[c]) = EffectiveWorkers


\* the call is past wg.Wait()
PastJoin(c) ==
    pc[c] \in { "store", "storeList", "storeData", "storeDurable", "unlock" }
    /\ ret[c] = "unlock"

\* C14: EnsureTorrent reaches its post-batch check, store or return only
\* after every worker it launched has finished (a call that generated at all
\* has a result for each of its unique paths); and, every provider call
\* returning, every call that was entered returns, with no mutex left locked
\* once all calls have returned.
C14_JoinAndTermination ==
    /\ [](\A c \in Procs :
            PastJoin(c) =>
               /\ inflight[c] = {}
               /\ gen[c] # {} =>
                     { e[1] : e \in gen[c] }
                        = { uniquePaths[c][i] : i \in 1..Len(uniquePaths[c]) })
    /\ \A c \in Procs : (pc[c] # "idle") ~> (pc[c] = "done")
    /\ []((\A c \in Procs : pc[c] \in { "idle", "done" }) => locked = {})

\* all callers have returned, one of them after a batch of two generations,
\* and no mutex is left locked
C14_Witness ==
    /\ \A c \in Procs : pc[c] = "done"
    /\ locked = {}
    /\ \E c \in Procs : Cardinality(gen[c]) = 2


\* C15: whenever no EnsureTorrent call is in progress, ensureLocks holds no
\* entry, for callers on the same and on different torrents.
C15_RegistryEmpty ==
    (\A c \in Procs : pc[c] \in { "idle", "done" })
       => \A h \in NormHashes : ensureLocks[h] = 0

\* all callers have returned; two of them were at the mutex of one torrent at
\* the same time, a third was on another torrent
C15_Witness ==
    /\ \A c \in Procs : pc[c] = "done"
    /\ \E c \in Procs, d \in Procs, e \in Procs :
          /\ c # d /\ hashHex[c] = hashHex[d] /\ hashHex[c] # EmptyStr
          /\ hashHex[e] \notin { hashHex[c], EmptyStr }
          /\ snap[c].prior = {} /\ snap[d].prior = {} /\ snap[e].prior = {}


\* lower-case(trim(h))
Canon(h) == ToLower(TrimSpace(h))

\* C16: an entry point called with h works under the lock and on the bucket
\* of lower-case(trim(h)), and the reads with h answer as the reads with
\* lower-case(trim(h)); when lower-case(trim(h)) is empty the call returns at
\* once: no lock is taken, no provider call is issued, no cache state changes,
\* and the reads return false and the empty string.
C16_Normalized ==
    /\ [](\A c \in Procs :
            pc[c] \notin { "idle", "done" } =>
               /\ hashHex[c] = Canon(last.hash)
               /\ hashHex[c] # EmptyStr
               /\ mu[c] # 0 => mu[c] \in { ensureLocks[hashHex[c]] } \cup locked)
    /\ [](\A h \in HashInputs, p \in ReadPaths :
            /\ HasDLNATitleBucket(h) = HasDLNATitleBucket(Canon(h))
            /\ GetDLNATitle(h, p) = GetDLNATitle(Canon(h), p)
            /\ HasDLNATitleBucket(h) => Canon(h) \in dbBuckets
            /\ Canon(h) = EmptyStr =>
                  (~HasDLNATitleBucket(h) /\ GetDLNATitle(h, p) = EmptyStr))
    /\ [][(Quiet /\ Canon(last'.hash) = EmptyStr)
             => (Quiet' /\ cacheVars' = cacheVars /\ lockVars' = lockVars /\ gen' = gen)]_vars

\* a bucket stored under one spelling of the hash was read under another, and
\* a call with a blank hash has returned
C16_Witness ==
    /\ Quiet /\ last.op \in { "ensure", "store", "rem" } /\ last.hash = Str1(" ")
    /\ Str1("a") \in dbBuckets
    /\ \E c \in Procs : pc[c] = "done" /\ snap[c].hash = Str2("A", " ") /\ gen[c] # {}
    /\ HasDLNATitleBucket(Str2("A", " "))

\* the directories of the projection root that carry the marker of a torrent
Marked(h) == { d \in fsDirs : fsMarker[d] = h }

\* C17: after projection runs for one torrent under different titles, at most
\* one directory carries the marker of the torrent and it is the directory of
\* the latest title; when only that torrent was projected, no directory of an
\* earlier title is left
C17_StaleRemoved ==
    pj[1].pc = "idle" =>
        \A h \in hist.ran :
            /\ Marked(h) \subseteq { hist.dirOf[h] }
            /\ hist.ran = { h } /\ hist.dirs[h] # {} => fsDirs = { hist.dirOf[h] }

C17_Witness ==
    /\ pj[1].pc = "idle"
    /\ hist.ran = { Str1("a") }
    /\ Cardinality(hist.dirs[Str1("a")]) >= 2
    /\ Marked(Str1("a")) = { hist.dirOf[Str1("a")] }
    /\ fsDirs = { hist.dirOf[Str1("a")] }

\* the tree under the projection root
Tree == <<fsDirs, fsMarker, fsFiles>>

\* C18: a projection run that follows a completed run with the same torrent,
\* title, name, listing and cache leaves the tree the first run left
C18_Idempotent ==
    pj[1].pc = "idle" /\ pj[1].same => Tree = pj[1].before

\* the same, for torrents whose directory names never coincided
C18_IdempotentOwnDirs ==
    /\ pj[1].pc = "idle"
    /\ pj[1].same
    /\ hist.dirs[Str1("a")] \cap hist.dirs[Str1("b")] = {}
    => Tree = pj[1].before

\* the torrents whose link files a directory holds
Owners(d) == { f[2].link : f \in fsFiles[d] }

\* C19: once two torrents are projected, each has a directory of its own:
\* it carries the marker of the torrent and holds link files of that torrent only
C19_OwnDirectory ==
    pj[1].pc = "idle" /\ hist.ran = LinkHashes =>
        \A h \in LinkHashes :
            /\ Marked(h) # {}
            /\ \A d \in Marked(h) : Owners(d) = { h }

\* the same, for torrents whose directory names never coincided
C19_OwnDirectoryDistinctNames ==
    /\ pj[1].pc = "idle"
    /\ hist.ran = LinkHashes
    /\ hist.dirs[Str1("a")] \cap hist.dirs[Str1("b")] = {}
    => \A h \in LinkHashes :
           /\ Marked(h) # {}
           /\ \A d \in Marked(h) : Owners(d) = { h }

\* how many of the first i files written by the running call have the base
\* name of the i-th
Occurrence(i) ==
    Cardinality({ j \in 1..i : pj[1].written[j].base = pj[1].written[i].base })

\* C20: in listing order, the first media file of a sanitized title is written
\* under '<base>' and the k-th (k >= 2) under '<base> (k)'
C20_CollisionSuffix ==
    /\ [](\A i \in 1..Len(pj[1].written) :
            LET w == pj[1].written[i]
                k == Occurrence(i)
            IN w.name = IF k = 1 THEN w.base
                        ELSE w.base \o <<" ", "(">> \o Itoa(k) \o <<")">>)
    /\ [](\A i, j \in 1..Len(pj[1].written) : i < j => pj[1].written[i].id < pj[1].written[j].id)
    /\ [][\A i \in 1..Len(pj'[1].written) :
             i > Len(pj[1].written) =>
                 \E f \in fsFiles'[pj[1].dir] :
                     /\ f[1] = pj'[1].written[i].name \o <<".strmlnk">>
                     /\ f[2].index = pj'[1].written[i].id]_vars

C20_Witness ==
    /\ Len(pj[1].written) = 3
    /\ \A i \in 1..3 : Occurrence(i) = i
    /\ \E f \in fsFiles[pj[1].dir] : f[1] = <<"T", " ", "(", "3", ")", ".strmlnk">> /\ f[2].index = 3
    /\ \E f \in fsFiles[pj[1].dir] : f[1] = <<"T", ".strmlnk">> /\ f[2].index = 1

\* the link-file names the running call has chosen so far
Names == { pj[1].written[i].name : i \in 1..Len(pj[1].written) }

\* C21: different media files of one torrent get different link-file names, so
\* the directory of a torrent projected alone holds one link file per media file
C21_OneFilePerMedia ==
    /\ Cardinality(Names) = Len(pj[1].written)
    /\ (pj[1].pc = "idle" /\ hist.ran = { pj[1].hash } /\ pj[1].hash # EmptyStr)
          => Cardinality(fsFiles[pj[1].dir]) = Len(FileStats(pj[1].hash))

\* the same, when no cached title has the form of a suffixed name
C21_OneFilePerMediaPlainTitles ==
    (\A h \in dbBuckets : \A e \in dbEntries[h] : e[2] # <<"T", " ", "(", "2", ")">>)
    => /\ Cardinality(Names) = Len(pj[1].written)
       /\ (pj[1].pc = "idle" /\ hist.ran = { pj[1].hash } /\ pj[1].hash # EmptyStr)
             => Cardinality(fsFiles[pj[1].dir]) = Len(FileStats(pj[1].hash))

\* the directory name the running call of goroutine c gives its torrent
OwnDir(c) == DirName(pj[c].title, pj[c].info, pj[c].hash)

\* the call of goroutine c has attempted the write of every link file
AllAttempted(c) == Len(pj[c].written) = Len(FileStats(pj[c].hash))

\* C22 (as written): in every intermediate state of a call, a marker of the
\* torrent in the torrent's directory means every link file of the call was
\* attempted
C22_MarkerMeansAttempted ==
    \A c \in LinkProcs :
        (pj[c].pc # "idle" /\ OwnDir(c) \in fsDirs /\ fsMarker[OwnDir(c)] = pj[c].hash)
            => AllAttempted(c)

\* C22: from the end of the stale-directory removal to the marker write no
\* directory carries the marker of the torrent; the marker is written by the
\* last step of the call, after the write of every link file was attempted
C22_MarkerLast ==
    /\ [](\A c \in LinkProcs :
            pj[c].pc \in { "mkdir", "files" } => Marked(pj[c].hash) = {})
    /\ [](\A c \in LinkProcs : pj[c].marker # "none" => AllAttempted(c))
    /\ [][(\E d \in DirNames : fsMarker'[d] # fsMarker[d] /\ fsMarker'[d] # EmptyStr)
             => \E c \in LinkProcs :
                   /\ pj[c].pc = "files" /\ AllAttempted(c)
                   /\ pj'[c].pc = "idle" /\ pj'[c].marker = "written"
                   /\ fsFiles' = fsFiles /\ fsDirs' = fsDirs]_vars
    /\ [][(\A c \in LinkProcs : pj[c].pc = "idle" /\ pj'[c].pc = "idle")
             => Tree' = Tree]_vars

\* a call repeated for a torrent is half way through its link files; the
\* directory is there and carries no marker
C22_Witness ==
    /\ pj[1].pc = "files" /\ pj[1].i = 2
    /\ hist.dirs[pj[1].hash] # {}
    /\ pj[1].dir \in fsDirs
    /\ fsFiles[pj[1].dir] # {}
    /\ fsMarker[pj[1].dir] = EmptyStr

\* the media file of torrent h with the given id
FileOf(h, id) == CHOOSE f \in { FileStats(h)[i] : i \in 1..Len(FileStats(h)) } : f.Id = id

\* the stream URL of a media file, as the parts of the format string
StreamURL(h, f) ==
    [url |-> BaseURL, name |-> PathEscape(Base(f.Path)), link |-> h, index |-> f.Id]

\* C23: a link file holds the stream URL of the media file it was written
\* for: the link parameter is the normalized hash and the index parameter is
\* the index of that file, also for files that share a title
C23_LinkContent ==
    /\ [][\A c \in LinkProcs :
             (Len(pj'[c].written) > Len(pj[c].written) /\ pj'[c].written[Len(pj'[c].written)].ok)
                => LET w == pj'[c].written[Len(pj'[c].written)]
                   IN MapGet(fsFiles'[pj[c].dir], w.name \o <<".strmlnk">>)
                         = StreamURL(pj[c].hash, FileOf(pj[c].hash, w.id))]_vars
    /\ [](\A d \in fsDirs : \A f \in fsFiles[d] :
            /\ f[2].link \in LinkHashes
            /\ f[2].link = normalizeDLNAHash(f[2].link)
            /\ \E i \in 1..Len(FileStats(f[2].link)) :
                  f[2] = StreamURL(f[2].link, FileStats(f[2].link)[i]))

\* three files of one title are written under three names, each with its own index
C23_Witness ==
    /\ pj[1].pc = "idle" /\ pj[1].marker = "written"
    /\ \A i \in 1..3 : pj[1].written[i].base = Str1("T")
    /\ { f[2].index : f \in fsFiles[pj[1].dir] } = { 1, 2, 3 }
    /\ \A f \in fsFiles[pj[1].dir] : f[2].link = pj[1].hash

\* how far a createStreamLinkFiles call has come: every step takes it further
ProjMeasure(c) ==
    CASE pj[c].pc = "remove" -> 0
      [] pj[c].pc = "mkdir" -> 1
      [] pj[c].pc = "files" -> 1 + pj[c].i
      [] OTHER -> 3 + LoopEnd(pj[c].hash)

\* C24: while the durable store is not open, HasDLNATitleBucket answers false
\* and GetDLNATitle the empty string, StoreDLNATitles, SetDLNATitle and
\* RemDLNATitles return at once and change nothing, EnsureTorrent returns, and
\* createStreamLinkFiles advances with every step and ends with the marker
C24_ClosedNoop ==
    /\ [](\A h \in ClosedHashes \cup LinkHashes :
            /\ ~HasDLNATitleBucket(h)
            /\ \A p \in ReadPaths : GetDLNATitle(h, p) = EmptyStr)
    /\ [][last' # last => /\ cacheVars' = cacheVars
                          /\ lockVars' = lockVars \/ last'.op = "ensure"
                          /\ last'.op # "ensure" => Quiet']_vars
    /\ [][(pc' # pc \/ pj' # pj) => cacheVars' = cacheVars]_vars
    /\ (pc[1] # "idle") ~> (pc[1] = "done")
    /\ [](pj[1].pc = "idle" /\ hist.ran # {} => pj[1].marker = "written")
    /\ [][pj' # pj => ProjMeasure(1)' > ProjMeasure(1) \/ pj[1].pc = "idle"]_vars

\* the file of the store holds a bucket, a store call with titles has returned,
\* an EnsureTorrent call has generated and returned, a projection has finished
C24_Witness ==
    /\ ~tdbOpen
    /\ dbBuckets = { Str1("a") }
    /\ Quiet /\ last.op = "store" /\ last.ts # {} /\ normalizeDLNAHash(last.hash) = Str1("a")
    /\ pc[1] = "done" /\ gen[1] # {}
    /\ pj[1].marker = "written" /\ pj[1].hash = Str1("a")

\* C25: a failed write of one link file does not end the call: the link file
\* of every later media file is attempted, and then the marker
C25_ContinueAfterFailure ==
    /\ [](\A c \in LinkProcs : pj[c].pc = "files" => Len(pj[c].written) = pj[c].i - 1)
    /\ [][\A c \in LinkProcs :
             Len(pj'[c].written) > Len(pj[c].written)
                => pj'[c].pc = "files" /\ pj'[c].i = pj[c].i + 1]_vars
    /\ [][\A c \in LinkProcs :
             pj[c].pc = "files" /\ pj'[c].pc = "idle"
                => AllAttempted(c) /\ pj'[c].marker \in { "written", "failed" }]_vars

\* the first write failed, the second and the marker were written
C25_Witness ==
    /\ pj[1].pc = "idle" /\ pj[1].marker = "written"
    /\ Len(pj[1].written) = 3
    /\ ~pj[1].written[1].ok /\ pj[1].written[2].ok
    /\ \E f \in fsFiles[pj[1].dir] : f[2].index = 2
    /\ \A f \in fsFiles[pj[1].dir] : f[2].index # 1

\* what the two layers hold for one torrent: the durable bucket, the cached
\* listing and the cached data
BucketOf(h) ==
    << h \in dbBuckets, dbEntries[h],
       { e \in listCache : e[1] = h }, { k \in dataCache : k[1] = h } >>

\* goroutine c is inside storeDLNATitles or removeDLNATitleBucket
InStoreOrRem(c) ==
    pc[c] \in { "storeList", "storeData", "storeDurable", "remList", "remData", "remDurable" }

\* C26: every step of StoreDLNATitles and RemDLNATitles for one torrent leaves
\* the durable bucket, the cached listing and the cached data of every other
\* torrent as they were, and the purge takes all memory entries of the torrent
C26_BucketFrame ==
    /\ [][\A c \in Procs :
             (InStoreOrRem(c) \/ (last' # last /\ last'.op \in { "store", "rem" }))
                => \A h \in BucketHashes :
                      h # normalizeDLNAHash(IF InStoreOrRem(c) THEN hashHex[c] ELSE last'.hash)
                         => BucketOf(h)' = BucketOf(h)]_vars
    /\ [](\A c \in Procs :
            pc[c] \in { "storeDurable", "remDurable" }
               => /\ \A e \in listCache : e[1] # hashHex[c]
                  /\ \A k \in dataCache : k[1] # hashHex[c])

\* RemDLNATitles for "a" has returned: its bucket, listing and data are gone,
\* those of "ab" are all there
C26_Witness ==
    /\ Quiet /\ last.op = "rem" /\ last.hash = Str1("a")
    /\ last.had /\ last.list /\ last.data
    /\ BucketOf(Str1("a")) = << FALSE, {}, {}, {} >>
    /\ Str2("a", "b") \in dbBuckets
    /\ \E e \in listCache : e[1] = Str2("a", "b")
    /\ \E k \in dataCache : k[1] = Str2("a", "b")

\* goroutine c is between the stale-directory removal and the marker write
InWindow(c) == pj[c].pc \in { "mkdir", "files" }

\* C27: no two createStreamLinkFiles executions for one torrent are between
\* stale-directory removal and marker write at the same time
C27_Serialized ==
    \A c \in LinkProcs, d \in LinkProcs :
        (c # d /\ pj[c].hash = pj[d].hash) => ~(InWindow(c) /\ InWindow(d))

\* the base name the design gives a media file whose title is not cached
FallbackName(f) ==
    IF sanitizeFileName(Base(f.Path)) = EmptyStr THEN FileDash(f.Id)
    ELSE sanitizeFileName(Base(f.Path))

\* C28: a media file without a cached title is named from the sanitized last
\* component of its path
C28_FallbackBaseName ==
    \A c \in LinkProcs : \A i \in 1..Len(pj[c].written) :
        LET f == FileOf(pj[c].hash, pj[c].written[i].id)
        IN GetDLNATitle(pj[c].hash, f.Path) = EmptyStr
              => pj[c].written[i].base = FallbackName(f)

\* the same, for media files that lie at the top of the torrent
C28_FallbackBaseNameTopLevel ==
    \A c \in LinkProcs : \A i \in 1..Len(pj[c].written) :
        LET f == FileOf(pj[c].hash, pj[c].written[i].id)
        IN (GetDLNATitle(pj[c].hash, f.Path) = EmptyStr /\ Base(f.Path) = f.Path)
              => pj[c].written[i].base = FallbackName(f)

\* the candidates for the directory name, in the order of the code
Candidates == << sanitizeFileName(nm.title), sanitizeFileName(nm.info), nm.hash >>

\* C29: the directory name is the first non-empty of the sanitized title, the
\* sanitized info name and the hash; it is not empty, has no control and no
\* reserved character and is at most 200 characters long
C29_DirName ==
    nm.hash # EmptyStr =>
        /\ \E i \in 1..3 :
              /\ nm.out = Candidates[i]
              /\ Candidates[i] # EmptyStr
              /\ \A j \in 1..(i - 1) : Candidates[j] = EmptyStr
        /\ nm.out # EmptyStr
        /\ \A i \in 1..Len(nm.out) : ~IsControl(nm.out[i]) /\ ~IsReserved(nm.out[i])
        /\ Len(nm.out) <= NameCap

\* a title longer than the cap gives a name of exactly the cap; a title of
\* dots up to the cap gives way to the info name
C29_Witness ==
    \/ Len(nm.title) > NameCap /\ Len(nm.out) = NameCap /\ nm.out = sanitizeFileName(nm.title)
    \/ /\ Len(nm.title) > NameCap /\ sanitizeFileName(nm.title) = EmptyStr
       /\ nm.out = <<"I", "_", "J">>

\* the records of the stored array have pairwise different paths
FlatUnique(h) ==
    LET u == Unmarshal(flatBuf[h])
    IN \A i, j \in 1..Len(u.val) : u.val[i].path = u.val[j].path => i = j

\* every SetDLNATitle call has returned, and the calls were for different paths
FlatQuiet ==
    /\ \A c \in FlatProcs : fl[c].pc = "done"
    /\ \A c, d \in FlatProcs : c # d => fl[c].path # fl[d].path

\* C30: in the flat encoding, once concurrent SetDLNATitle calls for distinct
\* paths of one hash have all returned, GetDLNATitle gives for each path the
\* title that was set, and the stored array has at most one record per path
C30_NoLostUpdate ==
    tdbOpen /\ FlatQuiet =>
        /\ \A c \in FlatProcs : Settings_GetDLNATitle(fl[c].hash, fl[c].path) = fl[c].title
        /\ \A h \in FlatHashes : FlatUnique(h)

\* the part of C30 the code keeps: never two records for one path
C30_UniqueRecords == \A h \in FlatHashes : FlatUnique(h)

\* the part of C30 the code keeps: a call that ran with no other call finds
\* its title, and the records that were there before are still there
C30_AloneKept ==
    \A c \in FlatProcs :
        tdbOpen /\ fl[c].pc = "done" /\ (\A d \in FlatProcs \ {c} : fl[d].pc = "idle") =>
            /\ Settings_GetDLNATitle(fl[c].hash, fl[c].path) = fl[c].title
            /\ fl[c].path # Str1("z") /\ Len(Unmarshal(flatBuf[fl[c].hash]).val) = 2 =>
                   Settings_GetDLNATitle(fl[c].hash, Str1("z")) = Str1("O")

\* p is the directory d or lies below it, with no ".." on the way
Inside(p, d) ==
    LET pc0 == Split(p)
        dc == Split(d)
    IN /\ Len(pc0) >= Len(dc)
       /\ SubSeq(pc0, 1, Len(dc)) = dc
       /\ \A i \in (Len(dc) + 1)..Len(pc0) : pc0[i] \notin { EmptyStr, Str1("."), Str2(".", ".") }

\* d is a direct child of the projection root
ChildOfRoot(d) ==
    LET dc == Split(d)
    IN /\ Len(dc) = Len(Split(CtRoot)) + 1
       /\ Inside(d, CtRoot)

\* C31: whatever the title, the info name, the cached title and the media
\* path, the torrent directory is a direct child of the projection root, and
\* every directory made and every file written by createStreamLinkFiles is
\* the root, the torrent directory, or lies inside the torrent directory
C31_Contained ==
    ct.rev # "none" =>
        /\ ChildOfRoot(ct.dir)
        /\ \A p \in ct.made : p = CtRoot \/ Inside(p, ct.dir)
        /\ \A p \in ct.wrote : p # ct.dir /\ Inside(p, ct.dir)

\* a file is written for a rooted path with ".." under a title with "../",
\* or for a cached title that climbs three levels
C31_Witness ==
    \/ /\ ct.rev = "strm"
       /\ ct.title = <<".", ".", "/", "M">>
       /\ ct.path = <<"/", ".", ".", "/", "x">>
       /\ Cardinality(ct.wrote) = 2
    \/ /\ ct.rev = "strmlnk"
       /\ ct.looked = <<"a", "/", ".", ".", "/", ".", ".", "/", ".", ".", "/", "T">>
       /\ ct.path = <<".", ".", "/", "x">>
       /\ Cardinality(ct.wrote) = 2

====
